---------------------------- MODULE Spec2Model ----------------------------
(***************************************************************************)
(* Model of the website cloner backend (backend/main.py,                   *)
(* backend/app/scraper.py, backend/app/llm_cloner.py).                     *)
(*                                                                         *)
(* Text is modelled as a sequence of atoms.  In the request pipeline an    *)
(* atom is a chunk of text (a message, a tag); in the URL helpers an atom  *)
(* is one character.  Python and JavaScript values are tagged records      *)
(* [t |-> type, v |-> payload]; a dict is a function from key to value.    *)
(***************************************************************************)
EXTENDS Naturals, Integers, Sequences, FiniteSets, TLC

VARIABLES
    entry,      \* the entry point that is running: "clone" or "scrape_website"
    request,    \* the request body: [url]
    env,        \* module globals: PLAYWRIGHT_AVAILABLE, agent_primary, ANTHROPIC_API_KEY
    pc,         \* position of clone_website
    spc,        \* position of the scraper (either implementation)
    sidx,       \* scrape_website: index of the next step of WebsiteSteps
    cycles,     \* scrape_with_super_playwright: scroll cycles done
    pw,         \* the async_playwright() context: "none", "entered", "exited"
    browser,    \* the launched browser: "none", "open", "closed", "stopped"
    navLog,     \* page.goto attempts made, in order
    steps,      \* pipeline steps completed, in order
    scrapeOut,  \* what the scraper returned or raised
    data,       \* clone_website: the local `data`
    fallbacks,  \* clone_website: the fallback structures assigned to `data`, in order
    agentCalls, \* number of agent_primary.ainvoke calls
    modelCalls, \* the client.messages.create calls made: the kind of each outcome
    response,   \* the CloneResponse, or NoResponse
    page,       \* the DOM facts the extraction script reads
    fin,        \* helper specifications: the input drawn
    fout        \* helper specifications: the output computed

vars == <<entry, request, env, pc, spc, sidx, cycles, pw, browser, navLog, steps,
          scrapeOut, data, fallbacks, agentCalls, modelCalls, response,
          page, fin, fout>>

pipelineVars == <<entry, request, env, pc, spc, sidx, cycles, pw, browser, navLog, steps,
                  scrapeOut, data, fallbacks, agentCalls, modelCalls, response>>

(***************************************************************************)
(* Values                                                                  *)
(***************************************************************************)
Str(s)  == [t |-> "str",  v |-> s]
Bool(b) == [t |-> "bool", v |-> b]
Num(n)  == [t |-> "int",  v |-> n]
List(l) == [t |-> "list", v |-> l]
Dict(d) == [t |-> "dict", v |-> d]
None    == [t |-> "none", v |-> <<>>]

\* dict.get(key, default)
Get(d, k, default) == IF k \in DOMAIN d THEN d[k] ELSE default

\* Python truthiness
Truthy(x) ==
    CASE x.t = "none" -> FALSE
      [] x.t = "bool" -> x.v
      [] x.t = "int"  -> x.v # 0
      [] x.t = "str"  -> Len(x.v) > 0
      [] x.t = "list" -> Len(x.v) > 0
      [] x.t = "dict" -> DOMAIN x.v # {}

\* `needle in haystack` for text: needle occurs as a contiguous run of atoms
Contains(hay, needle) ==
    \E i \in 0..(Len(hay) - Len(needle)) :
        \A j \in 1..Len(needle) : hay[i + j] = needle[j]

\* text.startswith(prefix)
StartsWith(s, prefix) ==
    /\ Len(s) >= Len(prefix)
    /\ \A j \in 1..Len(prefix) : s[j] = prefix[j]

(***************************************************************************)
(* Characters (main.py:214-230: the two helpers of the extraction script)  *)
(***************************************************************************)
UpperCase == <<"A","B","C","D","E","F","G","H","I","J","K","L","M",
               "N","O","P","Q","R","S","T","U","V","W","X","Y","Z">>
LowerCase == <<"a","b","c","d","e","f","g","h","i","j","k","l","m",
               "n","o","p","q","r","s","t","u","v","w","x","y","z">>
Digits    == {"0","1","2","3","4","5","6","7","8","9"}

\* [a-zA-Z0-9]
IsAlnum(c) ==
    \/ \E i \in 1..26 : c = UpperCase[i] \/ c = LowerCase[i]
    \/ c \in Digits

\* \w
IsWord(c) == IsAlnum(c) \/ c = "_"

\* String.prototype.toLowerCase, one character
LowerChar(c) ==
    IF \E i \in 1..26 : c = UpperCase[i]
    THEN LowerCase[CHOOSE i \in 1..26 : c = UpperCase[i]]
    ELSE c

toLowerCase(s) == [i \in 1..Len(s) |-> LowerChar(s[i])]

\* the literals the helpers test for
DataScheme  == <<"d","a","t","a",":">>
DataImage   == <<"d","a","t","a",":","i","m","a","g","e","/">>
SlashSlash  == <<"/","/">>
Slash       == <<"/">>
Http        == <<"h","t","t","p">>
HttpsColon  == <<"h","t","t","p","s",":">>
Unknown     == <<"u","n","k","n","o","w","n">>
\* JavaScript null; resolveUrl's callers only test the result for truthiness,
\* and the empty string is the other falsy text
NullUrl     == <<>>

\* one past the longest run of characters of the class `kind` that starts at s[i]
RECURSIVE RunEnd(_, _, _)
RunEnd(s, i, kind) ==
    IF i <= Len(s) /\ (IF kind = "word" THEN IsWord(s[i]) ELSE IsAlnum(s[i]))
    THEN RunEnd(s, i + 1, kind)
    ELSE i

\* faulty variant: a bare relative URL gets a "/" but not the origin
resolveUrl_NoOrigin(url, origin) ==
    IF Len(url) = 0 THEN NullUrl
    ELSE IF StartsWith(url, DataScheme) THEN url
    ELSE IF StartsWith(url, SlashSlash) THEN HttpsColon \o url
    ELSE IF StartsWith(url, Slash) THEN origin \o url
    ELSE IF ~StartsWith(url, Http) THEN Slash \o url
    ELSE url

(* function resolveUrl(url), main.py:214-221; origin is window.location.origin *)
resolveUrl(url, origin) ==
    IF Len(url) = 0 THEN NullUrl
    ELSE IF StartsWith(url, DataScheme) THEN url
    ELSE IF StartsWith(url, SlashSlash) THEN HttpsColon \o url
    ELSE IF StartsWith(url, Slash) THEN origin \o url
    ELSE IF ~StartsWith(url, Http) THEN origin \o Slash \o url
    ELSE url

(* src.match(/data:image\/(\w+)/): the leftmost "data:image/" that a word      *)
(* character follows; group 1 is the greedy run of word characters after it. *)
DataImageMatches(src) ==
    { i \in 1..Len(src) :
        /\ StartsWith(SubSeq(src, i, Len(src)), DataImage)
        /\ RunEnd(src, i + Len(DataImage), "word") > i + Len(DataImage) }

(* src.match(/\.([a-zA-Z0-9]+)(?:\?|$)/): the leftmost "." followed by a run   *)
(* of alphanumerics that ends at a "?" or at the end of the text.  The run   *)
(* is greedy and a shorter run is followed by an alphanumeric, so only the   *)
(* longest run can complete the match.                                       *)
ExtensionMatches(src) ==
    { i \in 1..Len(src) :
        /\ src[i] = "."
        /\ RunEnd(src, i + 1, "alnum") > i + 1
        /\ \/ RunEnd(src, i + 1, "alnum") = Len(src) + 1
           \/ src[RunEnd(src, i + 1, "alnum")] = "?" }

Leftmost(S) == CHOOSE i \in S : \A j \in S : i <= j

(* function getImageFormat(src), main.py:223-230 *)
getImageFormat(src) ==
    IF StartsWith(src, DataScheme)
    THEN IF DataImageMatches(src) = {} THEN Unknown
         ELSE LET i == Leftmost(DataImageMatches(src)) + Len(DataImage)
              IN  SubSeq(src, i, RunEnd(src, i, "word") - 1)
    ELSE IF ExtensionMatches(src) = {} THEN Unknown
         ELSE LET i == Leftmost(ExtensionMatches(src)) + 1
              IN  toLowerCase(SubSeq(src, i, RunEnd(src, i, "alnum") - 1))

(***************************************************************************)
(* The extraction script of scrape_with_super_playwright (main.py:207-446) *)
(*                                                                         *)
(* page.doc is the document's elements in document order; page.selectors   *)
(* gives, per selector of image_selectors in order, [throws, els]: whether *)
(* querySelectorAll raised, and the set of positions of doc it matches     *)
(* (querySelectorAll returns them in document order).  An element record   *)
(* holds what the script reads from it:                                    *)
(*   tagName; src (el.src, el.poster, first srcset entry, the serialised   *)
(*   SVG or canvas data-URI); dataSrc (the first non-empty data-*          *)
(*   attribute); w, h (the size chain of the media branches); ow, oh       *)
(*   (offsetWidth, offsetHeight); alt; throws (serializeToString or        *)
(*   toDataURL raises); bg (the url(...) references of its computed        *)
(*   background-image, in order).                                          *)
(***************************************************************************)
ImageCap == 100

\* a || b on text
OrElse(a, b) == IF Len(a) > 0 THEN a ELSE b

(* main.py:240-298: the per-element branch; skip is the `continue` of a     *)
(* failed SVG or canvas step                                               *)
ElementCandidate(el) ==
    CASE el.tagName = "IMG" ->
            [skip |-> FALSE, src |-> OrElse(el.src, el.dataSrc), width |-> el.w,
             height |-> el.h, alt |-> el.alt, context |-> <<"img-element">>]
      [] el.tagName = "SOURCE" ->
            [skip |-> FALSE, src |-> el.src, width |-> el.w, height |-> el.h,
             alt |-> <<"source-element">>, context |-> <<"source-element">>]
      [] el.tagName = "VIDEO" ->
            [skip |-> FALSE, src |-> el.src, width |-> el.w, height |-> el.h,
             alt |-> <<"video-thumbnail">>, context |-> <<"video-poster">>]
      [] el.tagName = "SVG" ->
            [skip |-> el.throws, src |-> el.src, width |-> el.w, height |-> el.h,
             alt |-> <<"svg-image">>, context |-> <<"svg-element">>]
      [] el.tagName = "CANVAS" ->
            [skip |-> el.throws, src |-> el.src, width |-> el.w, height |-> el.h,
             alt |-> <<"canvas-image">>, context |-> <<"canvas-element">>]
      [] OTHER ->
            [skip |-> FALSE, src |-> el.dataSrc, width |-> el.ow, height |-> el.oh,
             alt |-> el.alt, context |-> <<"data-attribute">>]

\* the image record pushed at main.py:304-312 and 337-345
ImageRecord(resolvedUrl, alt, width, height, context) ==
    [src |-> resolvedUrl, alt |-> alt, width |-> width, height |-> height,
     format |-> getImageFormat(resolvedUrl), context |-> context,
     is_base64 |-> StartsWith(resolvedUrl, DataScheme)]

\* faulty variant: seenUrls is not consulted
PushIfNew_NoSeenTest(acc, src, alt, width, height, context, origin) ==
    LET resolvedUrl == resolveUrl(src, origin) IN
    IF Len(src) > 0 /\ Len(resolvedUrl) > 0
    THEN [seenUrls  |-> acc.seenUrls \cup {resolvedUrl},
          allImages |-> Append(acc.allImages,
                               ImageRecord(resolvedUrl, alt, width, height, context))]
    ELSE acc

(* main.py:300-314 and 333-346: resolve, test seenUrls, add and push.       *)
(* acc is [seenUrls, allImages].                                           *)
PushIfNew(acc, src, alt, width, height, context, origin) ==
    LET resolvedUrl == resolveUrl(src, origin) IN
    IF Len(src) > 0 /\ Len(resolvedUrl) > 0 /\ resolvedUrl \notin acc.seenUrls
    THEN [seenUrls  |-> acc.seenUrls \cup {resolvedUrl},
          allImages |-> Append(acc.allImages,
                               ImageRecord(resolvedUrl, alt, width, height, context))]
    ELSE acc

\* the positions of a set, ascending: the order querySelectorAll returns
InDocumentOrder(S) ==
    [i \in 1..Cardinality(S) |->
        CHOOSE x \in S : Cardinality({ y \in S : y < x }) = i - 1]

(* main.py:239-315: for (const el of elements).  The iterations over a      *)
(* stretch of the list are those over its first half followed by those     *)
(* over its second half.                                                   *)
RECURSIVE ElementLoop(_, _, _, _)
ElementLoop(doc, order, acc, origin) ==
    IF order = <<>> THEN acc
    ELSE IF Len(order) = 1
    THEN LET c == ElementCandidate(doc[order[1]]) IN
         IF c.skip THEN acc
         ELSE PushIfNew(acc, c.src, c.alt, c.width, c.height, c.context, origin)
    ELSE LET half == Len(order) \div 2
             done == ElementLoop(doc, SubSeq(order, 1, half), acc, origin)
         IN  \* the first half is worked out before the second begins
             IF done = acc
             THEN ElementLoop(doc, SubSeq(order, half + 1, Len(order)), acc, origin)
             ELSE ElementLoop(doc, SubSeq(order, half + 1, Len(order)), done, origin)

\* faulty variant: a selector whose query throws ends the whole loop
RECURSIVE SelectorLoop_StopAtThrow(_, _, _)
SelectorLoop_StopAtThrow(pg, k, acc) ==
    IF k > Len(pg.selectors) \/ pg.selectors[k].throws THEN acc
    ELSE SelectorLoop_StopAtThrow(pg, k + 1,
            ElementLoop(pg.doc, InDocumentOrder(pg.selectors[k].els), acc, pg.origin))

(* main.py:235-319: for (const selector of selectors), each in a try/catch *)
RECURSIVE SelectorLoop(_, _, _)
SelectorLoop(pg, k, acc) ==
    IF k > Len(pg.selectors) THEN acc
    ELSE SelectorLoop(pg, k + 1,
            IF pg.selectors[k].throws THEN acc
            ELSE ElementLoop(pg.doc, InDocumentOrder(pg.selectors[k].els), acc,
                             pg.origin))

(* main.py:331-347: for (const match of matches) *)
RECURSIVE MatchLoop(_, _, _, _)
MatchLoop(el, urls, acc, origin) ==
    IF urls = <<>> THEN acc
    ELSE MatchLoop(el, Tail(urls),
                   PushIfNew(acc, Head(urls), <<"background-image">>, el.ow, el.oh,
                             <<"css-background">>, origin),
                   origin)

(* main.py:321-353: the scan of every element's computed background-image, *)
(* here of the elements at positions from..to of the document              *)
RECURSIVE BackgroundLoop(_, _, _, _)
BackgroundLoop(pg, from, to, acc) ==
    IF from > to THEN acc
    ELSE IF from = to
    THEN MatchLoop(pg.doc[from], pg.doc[from].bg, acc, pg.origin)
    ELSE LET mid  == (from + to) \div 2
             done == BackgroundLoop(pg, from, mid, acc)
         IN  \* the first half is worked out before the second begins
             IF done = acc
             THEN BackgroundLoop(pg, mid + 1, to, acc)
             ELSE BackgroundLoop(pg, mid + 1, to, done)

\* allImages before the sort: selectors first, then backgrounds
Discovered(pg) ==
    BackgroundLoop(pg, 1, Len(pg.doc),
        SelectorLoop(pg, 1, [seenUrls |-> {}, allImages |-> <<>>])).allImages

Area(img) == img.width * img.height

\* faulty variant: of two elements of equal area the later one goes first
GoesBefore_LaterFirst(imgs, j, k) ==
    \/ Area(imgs[j]) > Area(imgs[k])
    \/ Area(imgs[j]) = Area(imgs[k]) /\ j > k

(* main.py:427: the comparator (a, b) => b.width*b.height - a.width*a.height *)
(* is negative when a is the larger one, and zero for equal areas.          *)
(* Array.prototype.sort is stable: of two elements the comparator gives     *)
(* zero for, the one earlier in the array stays first.                      *)
GoesBefore(imgs, j, k) ==
    \/ Area(imgs[j]) > Area(imgs[k])
    \/ Area(imgs[j]) = Area(imgs[k]) /\ j < k

(* main.py:427: allImages.sort(...): each element takes the place after the *)
(* elements that go before it                                               *)
SortByArea(imgs) ==
    LET n     == Len(imgs)
        ahead == [k \in 1..n |-> Cardinality({ j \in 1..n : GoesBefore(imgs, j, k) })]
    IN  [r \in 1..n |-> imgs[CHOOSE k \in 1..n : ahead[k] = r - 1]]

\* faulty variant: nothing is cut off
Slice_All(s, n) == s

\* Array.prototype.slice(0, n)
Slice(s, n) == SubSeq(s, 1, IF Len(s) < n THEN Len(s) ELSE n)

(* main.py:356-366: body colours *)
Transparent == <<"r","g","b","a","(","0",","," ","0",","," ","0",","," ","0",")">>
White       == <<"#","f","f","f","f","f","f">>
DefaultText == <<"#","3","3","3","3","3","3">>
DarkMarks   == { <<"r","g","b","(","0">>, <<"#","0","0","0">>, <<"#","2","0","2","1","2","4">>, <<"r","g","b","(","1","8">> }

bgColorOf(pg) ==
    IF Len(pg.bodyStyles.backgroundColor) = 0 \/ pg.bodyStyles.backgroundColor = Transparent
    THEN White
    ELSE pg.bodyStyles.backgroundColor

isDarkOf(pg) == \E m \in DarkMarks : Contains(bgColorOf(pg), m)

(* main.py:368-396: the logo heuristic.  pg.logoImgs holds, per selector of *)
(* logoSelectors in order, the src and alt of document.querySelector's hit  *)
(* (src empty when there is no hit); pg.logoTexts holds, per selector of    *)
(* textLogoSelectors, the trimmed textContent of its hit (empty if none).   *)
RECURSIVE FirstLogoImg(_, _)
FirstLogoImg(imgs, k) ==
    IF k > Len(imgs) THEN None
    ELSE IF Len(imgs[k].src) > 0
         THEN Dict([type |-> Str(<<"image">>), src |-> Str(imgs[k].src),
                    alt |-> Str(imgs[k].alt)])
         ELSE FirstLogoImg(imgs, k + 1)

RECURSIVE FirstLogoText(_, _)
FirstLogoText(texts, k) ==
    IF k > Len(texts) THEN None
    ELSE IF Len(texts[k]) > 0
         THEN Dict([type |-> Str(<<"text">>), text |-> Str(texts[k])])
         ELSE FirstLogoText(texts, k + 1)

logoOf(pg) ==
    IF FirstLogoImg(pg.logoImgs, 1).t # "none"
    THEN FirstLogoImg(pg.logoImgs, 1)
    ELSE FirstLogoText(pg.logoTexts, 1)

(* main.py:398-412: navigation.  pg.navMatches holds, per selector of       *)
(* navSelectors in order, the links it matches in document order, each      *)
(* [text (trimmed textContent), href (link.href)].                          *)
NavTextLimit == 50
NavCap       == 10
HeadingCap   == 8
Hash         == <<"#">>

RECURSIVE NavLinkLoop(_, _)
NavLinkLoop(links, navLinks) ==
    IF links = <<>> THEN navLinks
    ELSE NavLinkLoop(Tail(links),
            IF /\ Len(Head(links).text) > 0
               /\ Len(Head(links).text) < NavTextLimit
               /\ Len(navLinks) < NavCap
            THEN Append(navLinks,
                        Dict([text |-> Str(Head(links).text),
                              href |-> Str(OrElse(Head(links).href, Hash))]))
            ELSE navLinks)

RECURSIVE NavSelectorLoop(_, _, _)
NavSelectorLoop(matches, k, navLinks) ==
    IF k > Len(matches) THEN navLinks
    ELSE NavSelectorLoop(matches, k + 1, NavLinkLoop(matches[k], navLinks))

(* main.py:414-424: headings.  pg.headingEls holds the h1, h2, h3 elements  *)
(* in document order, each [text (trimmed textContent), level].             *)
RECURSIVE HeadingLoop(_, _)
HeadingLoop(hs, headings) ==
    IF hs = <<>> THEN headings
    ELSE HeadingLoop(Tail(hs),
            IF Len(Head(hs).text) > 0 /\ Len(headings) < HeadingCap
            THEN Append(headings, Dict([text |-> Str(Head(hs).text),
                                        level |-> Str(Head(hs).level)]))
            ELSE headings)

(* main.py:429-444: what the script returns, as Python receives it *)
VisualData(pg) ==
    [url              |-> Str(pg.href),
     siteType         |-> Str(<<"standard">>),
     backgroundColor  |-> Str(bgColorOf(pg)),
     textColor        |-> Str(OrElse(pg.bodyStyles.color, DefaultText)),
     isDark           |-> Bool(isDarkOf(pg)),
     fontFamily       |-> Str(pg.bodyStyles.fontFamily),
     title            |-> Str(pg.title),
     logo             |-> logoOf(pg),
     navigation       |-> List(NavSelectorLoop(pg.navMatches, 1, <<>>)),
     headings         |-> List(HeadingLoop(pg.headingEls, <<>>)),
     allImages        |-> List(Slice(SortByArea(Discovered(pg)), ImageCap)),
     totalImagesFound |-> Num(Len(Discovered(pg))),
     hasSearch        |-> Bool(pg.hasSearch),
     hasVideo         |-> Bool(pg.hasVideo)]

(***************************************************************************)
(* The scrapers.  Every awaited browser call either completes or raises;   *)
(* which one is the environment's choice.  browser.close() itself is taken *)
(* to complete.                                                            *)
(***************************************************************************)
NoOutcome == [kind |-> "none", val |-> <<>>]

\* faulty variant: leaving the block stops nothing
AsyncWithExit_NoStop(b) == b

(* `async with async_playwright() as p` (main.py:164, scraper.py:23): leaving *)
(* the block stops the Playwright driver, and with it every browser the     *)
(* driver launched that is still open.                                      *)
AsyncWithExit(b) == IF b = "open" THEN "stopped" ELSE b

\* the text of the exception a failed browser call raises
StepError(what) == <<what, " failed">>

(* ---- scrape_with_super_playwright, main.py:156-457 ---- *)
ScrollCycles == 6
GotoTimeout  == 60000
ScreenshotB64 == <<"iVBORw0KGgo">>

(* main.py:455-457: an exception leaves the async-with block and is turned   *)
(* into an error result                                                      *)
SuperExcept(msg) ==
    /\ pw' = IF pw = "entered" THEN "exited" ELSE pw
    /\ browser' = IF pw = "entered" THEN AsyncWithExit(browser) ELSE browser
    /\ scrapeOut' = [kind |-> "return", val |-> [error |-> Str(msg)]]
    /\ spc' = "returned"

\* the handlers that call scrape_with_super_playwright (main.py:670, 817)
UsesSuper == entry \in {"clone", "extract_images"}

\* main.py:158-159
SuperCheck ==
    /\ UsesSuper /\ spc = "check"
    /\ IF env.playwright
       THEN spc' = "enter" /\ UNCHANGED <<pw, browser, scrapeOut>>
       ELSE /\ scrapeOut' = [kind |-> "return",
                             val |-> [error |-> Str(<<"Playwright not available">>)]]
            /\ spc' = "returned"
            /\ UNCHANGED <<pw, browser>>
    /\ UNCHANGED <<entry, request, env, pc, sidx, cycles, navLog, steps, data, fallbacks,
                   agentCalls, modelCalls, response, page, fin, fout>>

\* main.py:164
SuperEnter ==
    /\ UsesSuper /\ spc = "enter"
    /\ \E ok \in BOOLEAN :
         IF ok THEN pw' = "entered" /\ spc' = "launch" /\ UNCHANGED <<browser, scrapeOut>>
         ELSE SuperExcept(StepError("async_playwright"))
    /\ UNCHANGED <<entry, request, env, pc, sidx, cycles, navLog, steps, data, fallbacks,
                   agentCalls, modelCalls, response, page, fin, fout>>

\* main.py:165-175
SuperLaunch ==
    /\ UsesSuper /\ spc = "launch"
    /\ \E ok \in BOOLEAN :
         IF ok THEN browser' = "open" /\ spc' = "new_context" /\ UNCHANGED <<pw, scrapeOut>>
         ELSE SuperExcept(StepError("launch"))
    /\ UNCHANGED <<entry, request, env, pc, sidx, cycles, navLog, steps, data, fallbacks,
                   agentCalls, modelCalls, response, page, fin, fout>>

\* main.py:177-183
SuperNewPage ==
    /\ UsesSuper /\ spc \in {"new_context", "new_page"}
    /\ \E ok \in BOOLEAN :
         IF ok THEN /\ spc' = (IF spc = "new_context" THEN "new_page" ELSE "goto")
                    /\ UNCHANGED <<pw, browser, scrapeOut>>
         ELSE SuperExcept(StepError(spc))
    /\ UNCHANGED <<entry, request, env, pc, sidx, cycles, navLog, steps, data, fallbacks,
                   agentCalls, modelCalls, response, page, fin, fout>>

\* main.py:185-186: one page.goto, wait_until='domcontentloaded', timeout=60000
SuperGoto ==
    /\ UsesSuper /\ spc = "goto"
    /\ \E ok \in BOOLEAN :
         /\ navLog' = Append(navLog, [wait_until |-> "domcontentloaded",
                                      timeout |-> GotoTimeout, ok |-> ok])
         /\ IF ok THEN /\ steps' = Append(steps, "navigate")
                       /\ spc' = "wait"
                       /\ UNCHANGED <<pw, browser, scrapeOut>>
            ELSE SuperExcept(StepError("goto")) /\ UNCHANGED steps
    /\ UNCHANGED <<entry, request, env, pc, sidx, cycles, data, fallbacks,
                   agentCalls, modelCalls, response, page, fin, fout>>

\* main.py:187: page.wait_for_timeout(3000)
SuperWait ==
    /\ UsesSuper /\ spc = "wait"
    /\ \E ok \in BOOLEAN :
         IF ok THEN /\ steps' = Append(steps, "wait")
                    /\ spc' = "scroll"
                    /\ UNCHANGED <<pw, browser, scrapeOut>>
         ELSE SuperExcept(StepError("wait_for_timeout")) /\ UNCHANGED steps
    /\ UNCHANGED <<entry, request, env, pc, sidx, cycles, navLog, data, fallbacks,
                   agentCalls, modelCalls, response, page, fin, fout>>

\* main.py:191-195: one cycle of scroll to the bottom, wait, scroll to the top, wait
SuperScroll ==
    /\ UsesSuper /\ spc = "scroll"
    /\ \E ok \in BOOLEAN :
         IF ok THEN /\ cycles' = cycles + 1
                    /\ IF cycles + 1 = ScrollCycles
                       THEN steps' = Append(steps, "scroll") /\ spc' = "screenshot"
                       ELSE UNCHANGED <<steps, spc>>
                    /\ UNCHANGED <<pw, browser, scrapeOut>>
         ELSE SuperExcept(StepError("scroll")) /\ UNCHANGED <<steps, cycles>>
    /\ UNCHANGED <<entry, request, env, pc, sidx, navLog, data, fallbacks,
                   agentCalls, modelCalls, response, page, fin, fout>>

\* main.py:197-202
SuperScreenshot ==
    /\ UsesSuper /\ spc = "screenshot"
    /\ \E ok \in BOOLEAN :
         IF ok THEN /\ steps' = Append(steps, "screenshot")
                    /\ spc' = "evaluate"
                    /\ UNCHANGED <<pw, browser, scrapeOut>>
         ELSE SuperExcept(StepError("screenshot")) /\ UNCHANGED steps
    /\ UNCHANGED <<entry, request, env, pc, sidx, cycles, navLog, data, fallbacks,
                   agentCalls, modelCalls, response, page, fin, fout>>

\* main.py:207-449: the extraction script, then visual_data['screenshot'] = ...
SuperEvaluate ==
    /\ UsesSuper /\ spc = "evaluate"
    /\ \E ok \in BOOLEAN :
         IF ok THEN /\ steps' = Append(steps, "extract")
                    /\ scrapeOut' = [kind |-> "local",
                                     val |-> VisualData(page) @@
                                             [screenshot |-> Str(ScreenshotB64)]]
                    /\ spc' = "close"
                    /\ UNCHANGED <<pw, browser>>
         ELSE SuperExcept(StepError("evaluate")) /\ UNCHANGED steps
    /\ UNCHANGED <<entry, request, env, pc, sidx, cycles, navLog, data, fallbacks,
                   agentCalls, modelCalls, response, page, fin, fout>>

\* main.py:451-453: browser.close(), then the return leaves the async-with block
SuperClose ==
    /\ UsesSuper /\ spc = "close"
    /\ browser' = "closed"
    /\ pw' = "exited"
    /\ scrapeOut' = [scrapeOut EXCEPT !.kind = "return"]
    /\ spc' = "returned"
    /\ UNCHANGED <<entry, request, env, pc, sidx, cycles, navLog, steps, data, fallbacks,
                   agentCalls, modelCalls, response, page, fin, fout>>

(* ---- WebsiteScraper.scrape_website, scraper.py:22-60 ---- *)

\* faulty variant: the last two strategies swapped
strategies_Swapped == << [wait_until |-> "networkidle",      timeout |-> 30000],
                         [wait_until |-> "load",             timeout |-> 15000],
                         [wait_until |-> "domcontentloaded", timeout |-> 20000] >>

\* scraper.py:63-67
strategies == << [wait_until |-> "networkidle",      timeout |-> 30000],
                 [wait_until |-> "domcontentloaded", timeout |-> 20000],
                 [wait_until |-> "load",             timeout |-> 15000] >>

\* the exception page.goto raises under strategy i
NavError(i) == <<"goto failed under ", strategies[i].wait_until>>

\* faulty variant: the overlay step left out
WebsiteSteps_NoOverlay == <<
    [call |-> "_wait_for_content",             step |-> "wait",       raises |-> TRUE],
    [call |-> "_comprehensive_scroll",         step |-> "scroll",     raises |-> TRUE],
    [call |-> "page.content",                  step |-> "extract",    raises |-> TRUE],
    [call |-> "_capture_advanced_screenshots", step |-> "screenshot", raises |-> TRUE] >>

(* scraper.py:30-57: what follows the navigation inside the try block, in    *)
(* evaluation order (a dict display evaluates its values left to right).    *)
(* raises: whether an exception can leave the call; _handle_overlays        *)
(* swallows every exception (scraper.py:128).                               *)
WebsiteSteps == <<
    [call |-> "_wait_for_content",             step |-> "wait",       raises |-> TRUE],
    [call |-> "_handle_overlays",              step |-> "overlay",    raises |-> FALSE],
    [call |-> "_comprehensive_scroll",         step |-> "scroll",     raises |-> TRUE],
    [call |-> "page.content",                  step |-> "extract",    raises |-> TRUE],
    [call |-> "page.title",                    step |-> "extract",    raises |-> TRUE],
    [call |-> "_extract_meta_data",            step |-> "extract",    raises |-> TRUE],
    [call |-> "_capture_advanced_screenshots", step |-> "screenshot", raises |-> TRUE],
    [call |-> "_extract_advanced_html",        step |-> "extract",    raises |-> TRUE],
    [call |-> "_extract_visual_elements",      step |-> "extract",    raises |-> TRUE],
    [call |-> "_extract_interactive_elements", step |-> "extract",    raises |-> TRUE],
    [call |-> "_extract_media_content",        step |-> "extract",    raises |-> TRUE],
    [call |-> "_extract_design_system",        step |-> "extract",    raises |-> TRUE],
    [call |-> "_analyze_advanced_layout",      step |-> "extract",    raises |-> TRUE],
    [call |-> "_analyze_typography",           step |-> "extract",    raises |-> TRUE],
    [call |-> "_detect_animations",            step |-> "extract",    raises |-> TRUE],
    [call |-> "_analyze_responsive_advanced",  step |-> "extract",    raises |-> TRUE],
    [call |-> "_measure_performance",          step |-> "extract",    raises |-> TRUE],
    [call |-> "_analyze_accessibility",        step |-> "extract",    raises |-> TRUE] >>

(* an exception raised before the try block (scraper.py:23-26) leaves the    *)
(* async-with block directly                                                 *)
WebRaiseOutsideTry(msg) ==
    /\ pw' = IF pw = "entered" THEN "exited" ELSE pw
    /\ browser' = IF pw = "entered" THEN AsyncWithExit(browser) ELSE browser
    /\ scrapeOut' = [kind |-> "raise", val |-> msg]
    /\ spc' = "raised"

\* scraper.py:23-26
WebSetup ==
    /\ entry = "scrape_website"
    /\ spc \in {"enter", "launch", "new_context", "new_page"}
    /\ \E ok \in BOOLEAN :
         IF ok
         THEN /\ pw' = "entered"
              /\ browser' = IF spc = "launch" THEN "open" ELSE browser
              /\ spc' = CASE spc = "enter"       -> "launch"
                          [] spc = "launch"      -> "new_context"
                          [] spc = "new_context" -> "new_page"
                          [] spc = "new_page"    -> "nav"
              /\ UNCHANGED scrapeOut
         ELSE WebRaiseOutsideTry(StepError(spc))
    /\ UNCHANGED <<entry, request, env, pc, sidx, cycles, navLog, steps, data, fallbacks,
                   agentCalls, modelCalls, response, page, fin, fout>>

(* scraper.py:62-76, _smart_navigation: one pass of the loop body.  The     *)
(* attempt number is the number of attempts made so far plus one.           *)
smart_navigation ==
    /\ entry = "scrape_website" /\ spc = "nav"
    /\ LET i == Len(navLog) + 1 IN
       \E ok \in BOOLEAN :
         /\ navLog' = Append(navLog, [wait_until |-> strategies[i].wait_until,
                                      timeout |-> strategies[i].timeout, ok |-> ok])
         /\ IF ok
            THEN \* break
                 /\ steps' = Append(steps, "navigate")
                 /\ spc' = "steps"
                 /\ UNCHANGED scrapeOut
            ELSE IF i = Len(strategies)
            THEN \* raise e
                 /\ scrapeOut' = [kind |-> "raising", val |-> NavError(i)]
                 /\ spc' = "finally"
                 /\ UNCHANGED steps
            ELSE UNCHANGED <<steps, spc, scrapeOut>>
    /\ UNCHANGED <<entry, request, env, pc, sidx, cycles, pw, browser, data, fallbacks,
                   agentCalls, modelCalls, response, page, fin, fout>>

\* scraper.py:30-58: the next call of the try block; after the last, the return
WebStep ==
    /\ entry = "scrape_website" /\ spc = "steps"
    /\ \E ok \in BOOLEAN :
         IF ok \/ ~WebsiteSteps[sidx].raises
         THEN /\ steps' = Append(steps, WebsiteSteps[sidx].step)
              /\ sidx' = sidx + 1
              /\ IF sidx = Len(WebsiteSteps)
                 THEN /\ scrapeOut' = [kind |-> "returning", val |-> <<"scrape result">>]
                      /\ spc' = "finally"
                 ELSE UNCHANGED <<scrapeOut, spc>>
         ELSE /\ scrapeOut' = [kind |-> "raising",
                               val |-> StepError(WebsiteSteps[sidx].call)]
              /\ spc' = "finally"
              /\ UNCHANGED <<steps, sidx>>
    /\ UNCHANGED <<entry, request, env, pc, cycles, pw, browser, navLog, data, fallbacks,
                   agentCalls, modelCalls, response, page, fin, fout>>

\* scraper.py:59-60: finally: await browser.close()
FinallyClose(b) == "closed"

(* scraper.py:59-60: finally: await browser.close(); then the return or the  *)
(* exception leaves the async-with block                                     *)
WebFinally ==
    /\ entry = "scrape_website" /\ spc = "finally"
    /\ browser' = AsyncWithExit(FinallyClose(browser))
    /\ pw' = "exited"
    /\ scrapeOut' = [scrapeOut EXCEPT
                        !.kind = IF scrapeOut.kind = "raising" THEN "raise" ELSE "return"]
    /\ spc' = IF scrapeOut.kind = "raising" THEN "raised" ELSE "returned"
    /\ UNCHANGED <<entry, request, env, pc, sidx, cycles, navLog, steps, data, fallbacks,
                   agentCalls, modelCalls, response, page, fin, fout>>

(***************************************************************************)
(* safe_data_cleanup, main.py:572-638                                      *)
(***************************************************************************)
DigitChars == <<"0","1","2","3","4","5","6","7","8","9">>

RECURSIVE NatText(_)
NatText(n) == IF n < 10 THEN <<DigitChars[n + 1]>>
              ELSE NatText(n \div 10) \o <<DigitChars[(n % 10) + 1]>>

(* str(x).  The repr of a list or a dict is kept as one atom.               *)
PyStr(x) ==
    CASE x.t = "str"  -> x.v
      [] x.t = "bool" -> IF x.v THEN <<"True">> ELSE <<"False">>
      [] x.t = "none" -> <<"None">>
      [] x.t = "int"  -> IF x.v < 0 THEN <<"-">> \o NatText(0 - x.v) ELSE NatText(x.v)
      [] x.t = "list" -> <<"[list]">>
      [] x.t = "dict" -> <<"{dict}">>

\* x == 'literal'
EqText(x, text) == x.t = "str" /\ x.v = text

\* what `for item in x` yields; a str yields its characters, a dict its keys
Iterable(x) == x.t \in {"list", "str", "dict"}

RECURSIVE KeysOf(_)
KeysOf(S) == IF S = {} THEN <<>>
             ELSE LET k == CHOOSE x \in S : TRUE IN <<Str(<<k>>)>> \o KeysOf(S \ {k})

Items(x) ==
    CASE x.t = "list" -> x.v
      [] x.t = "str"  -> [i \in 1..Len(x.v) |-> Str(<<x.v[i]>>)]
      [] x.t = "dict" -> KeysOf(DOMAIN x.v)
      [] OTHER        -> <<>>

EmptyText == <<>>

(* main.py:594-600 and 611-617: the loop over navigation or headings; key   *)
(* is 'href' or 'level', fallback its default ('#' or 'h1')                  *)
RECURSIVE SafeEntries(_, _, _)
SafeEntries(items, key, fallback) ==
    IF items = <<>> THEN <<>>
    ELSE LET it == Head(items)
             rest == SafeEntries(Tail(items), key, fallback)
         IN  IF it.t = "dict"
             THEN LET text == Get(it.v, "text", Str(EmptyText)) IN
                  IF Truthy(text) /\ text.t = "str"
                  THEN <<Dict(("text" :> text) @@
                              (key :> Get(it.v, key, Str(fallback))))>> \o rest
                  ELSE rest
             ELSE IF it.t = "str"
             THEN <<Dict(("text" :> it) @@ (key :> Str(fallback)))>> \o rest
             ELSE rest

DefaultNavigation == << Dict([text |-> Str(<<"Home">>),  href |-> Str(<<"#">>)]),
                        Dict([text |-> Str(<<"About">>), href |-> Str(<<"#">>)]) >>
DefaultHeadings   == << Dict([text |-> Str(<<"Welcome">>), level |-> Str(<<"h1">>)]) >>

\* main.py:590-605
SafeNavigation(d) ==
    LET navigation == Get(d, "navigation", List(<<>>))
        safe == IF Truthy(navigation)
                THEN SafeEntries(Items(navigation), "href", <<"#">>) ELSE <<>>
    IN  IF safe = <<>> THEN DefaultNavigation ELSE safe

\* main.py:607-622
SafeHeadings(d) ==
    LET headings == Get(d, "headings", List(<<>>))
        safe == IF Truthy(headings)
                THEN SafeEntries(Items(headings), "level", <<"h1">>) ELSE <<>>
    IN  IF safe = <<>> THEN DefaultHeadings ELSE safe

\* the logo rule with the fallback reading the title of the input as given
SafeLogo_RawTitle(d, title) ==
    LET logo == Get(d, "logo", None) IN
    IF Truthy(logo) /\ logo.t = "dict"
       /\ EqText(Get(logo.v, "type", None), <<"text">>)
       /\ Truthy(Get(logo.v, "text", None))
    THEN Dict([type |-> Str(<<"text">>),
               text |-> Str(PyStr(Get(logo.v, "text", Str(EmptyText))))])
    ELSE IF Truthy(logo) /\ logo.t = "dict"
       /\ EqText(Get(logo.v, "type", None), <<"image">>)
       /\ Truthy(Get(logo.v, "src", None))
    THEN Dict([type |-> Str(<<"image">>),
               src  |-> Str(PyStr(Get(logo.v, "src", Str(EmptyText)))),
               alt  |-> Str(PyStr(Get(logo.v, "alt", Str(EmptyText))))])
    ELSE Dict([type |-> Str(<<"text">>), text |-> Get(d, "title", Str(<<"Website">>))])

\* main.py:624-636
SafeLogo(d, title) ==
    LET logo == Get(d, "logo", None) IN
    IF Truthy(logo) /\ logo.t = "dict"
       /\ EqText(Get(logo.v, "type", None), <<"text">>)
       /\ Truthy(Get(logo.v, "text", None))
    THEN Dict([type |-> Str(<<"text">>),
               text |-> Str(PyStr(Get(logo.v, "text", Str(EmptyText))))])
    ELSE IF Truthy(logo) /\ logo.t = "dict"
       /\ EqText(Get(logo.v, "type", None), <<"image">>)
       /\ Truthy(Get(logo.v, "src", None))
    THEN Dict([type |-> Str(<<"image">>),
               src  |-> Str(PyStr(Get(logo.v, "src", Str(EmptyText)))),
               alt  |-> Str(PyStr(Get(logo.v, "alt", Str(EmptyText))))])
    ELSE Dict([type |-> Str(<<"text">>), text |-> title])

(* a truthy navigation or headings value that cannot be iterated makes the  *)
(* for loop raise TypeError                                                 *)
safe_data_cleanup_raises(d) ==
    \E k \in {"navigation", "headings"} :
        LET x == Get(d, k, List(<<>>)) IN Truthy(x) /\ ~Iterable(x)

safe_data_cleanup(d) ==
    LET title == Str(PyStr(Get(d, "title", Str(<<"Website">>)))) IN
    [url              |-> Str(PyStr(Get(d, "url", Str(EmptyText)))),
     siteType         |-> Str(PyStr(Get(d, "siteType", Str(<<"standard">>)))),
     backgroundColor  |-> Str(PyStr(Get(d, "backgroundColor", Str(White)))),
     textColor        |-> Str(PyStr(Get(d, "textColor", Str(DefaultText)))),
     fontFamily       |-> Str(PyStr(Get(d, "fontFamily", Str(<<"system-ui, sans-serif">>)))),
     title            |-> title,
     isDark           |-> Bool(Truthy(Get(d, "isDark", Bool(FALSE)))),
     hasSearch        |-> Bool(Truthy(Get(d, "hasSearch", Bool(FALSE)))),
     hasVideo         |-> Bool(Truthy(Get(d, "hasVideo", Bool(FALSE)))),
     screenshot       |-> Str(PyStr(Get(d, "screenshot", Str(EmptyText)))),
     allImages        |-> Get(d, "allImages", List(<<>>)),
     totalImagesFound |-> Get(d, "totalImagesFound", Num(0)),
     navigation       |-> List(SafeNavigation(d)),
     headings         |-> List(SafeHeadings(d)),
     logo             |-> SafeLogo(d, title)]

(***************************************************************************)
(* HTMLGenerator, main.py:474-570                                          *)
(***************************************************************************)
\* the atom "<fence>" stands for the three backquotes of a Markdown fence
Fence       == <<"<fence>", "html">>
FenceEnd    == "<fence>"
DoctypeOpen == "<!DOCTYPE"
DoctypeLine == <<"<!DOCTYPE", " html>", "\n">>
Whitespace  == {" ", "\n"}

\* str.find(atom, start): the first position >= start holding atom, 0 if none
FindFrom(text, atom, start) ==
    IF \E i \in start..Len(text) : text[i] = atom
    THEN CHOOSE i \in start..Len(text) :
            text[i] = atom /\ \A j \in start..(i - 1) : text[j] # atom
    ELSE 0

\* str.find(Fence): the first position where the fence starts
FindFence(text) ==
    CHOOSE i \in 1..Len(text) :
        /\ StartsWith(SubSeq(text, i, Len(text)), Fence)
        /\ \A j \in 1..(i - 1) : ~StartsWith(SubSeq(text, j, Len(text)), Fence)

\* str.strip()
RECURSIVE Strip(_)
Strip(text) ==
    IF text = <<>> THEN text
    ELSE IF Head(text) \in Whitespace THEN Strip(Tail(text))
    ELSE IF text[Len(text)] \in Whitespace THEN Strip(SubSeq(text, 1, Len(text) - 1))
    ELSE text

\* main.py:557-565
CleanHtml(html_content) ==
    LET cut == IF Contains(html_content, Fence)
               THEN LET start == FindFence(html_content) + Len(Fence)
                        end   == FindFrom(html_content, FenceEnd, start)
                    IN  IF end # 0
                        THEN Strip(SubSeq(html_content, start, end - 1))
                        ELSE html_content
               ELSE html_content
    IN  IF Len(cut) > 0 /\ Head(cut) = DoctypeOpen THEN cut ELSE DoctypeLine \o cut

(* what client.messages.create does: returns a message with text, returns   *)
(* a message whose content list is empty, or raises                         *)
ModelOutcomes ==
    { [kind |-> "text", text |-> <<"<!DOCTYPE", " html>", "\n", "<html", ">",
                                   "<body>", "</body>", "</html>">>],
      [kind |-> "text", text |-> <<"Here is the page:", "\n", "<fence>", "html", "\n",
                                   "<html", ">", "<body>", "</body>", "</html>",
                                   "\n", "<fence>", "\n", "Enjoy.">>],
      [kind |-> "text", text |-> <<"<div>", "hello", "</div>">>],
      [kind |-> "empty", text |-> <<"list index out of range">>],
      [kind |-> "raises", text |-> <<"Connection error.">>] }

\* len(x) is defined
Sized(x) == x.t \in {"list", "str", "dict"}

\* x[:n] is defined
Sliceable(x) == x.t \in {"list", "str"}

\* img['src'], img['alt'], img['width'], img['height'], img['context'] are defined
ImageLike(img) == {"src", "alt", "width", "height", "context"} \subseteq DOMAIN img

(* main.py:487-528: the prompt is built outside the try block of line 547.  *)
(* len(all_images) needs a sized value, the slices need a sequence,         *)
(* nav.get and h.get need dicts, and img[...] needs the keys of an image.   *)
PromptRaises(d) ==
    LET navigation == Get(d, "navigation", List(<<>>))
        headings   == Get(d, "headings", List(<<>>))
        all_images == Get(d, "allImages", List(<<>>))
        NotDicts(x, n) ==
            \E i \in 1..(IF Len(Items(x)) < n THEN Len(Items(x)) ELSE n) :
                Items(x)[i].t # "dict"
    IN  \/ ~Sized(all_images)
        \/ ~Sliceable(navigation) \/ NotDicts(navigation, 6)
        \/ ~Sliceable(headings) \/ NotDicts(headings, 5)
        \/ ~Sliceable(all_images)
        \/ all_images.t = "str" /\ Len(all_images.v) > 0
        \/ all_images.t = "list" /\
             \E i \in 1..(IF Len(all_images.v) < 20 THEN Len(all_images.v) ELSE 20) :
                ~ImageLike(all_images.v[i])

(* HTMLGenerator.create_html, main.py:481-570: [raised, text], text being    *)
(* the document or the message of the exception                              *)
create_html(d, outcome) ==
    IF "error" \in DOMAIN d
    THEN [raised |-> TRUE,
          text |-> <<"No visual data available: ">> \o PyStr(d["error"])]
    ELSE IF PromptRaises(d)
    THEN [raised |-> TRUE, text |-> <<"TypeError or AttributeError">>]
    ELSE IF outcome.kind = "text"
    THEN [raised |-> FALSE, text |-> CleanHtml(outcome.text)]
    ELSE [raised |-> TRUE, text |-> <<"HTML generation failed: ">> \o outcome.text]

(***************************************************************************)
(* LLMWebsiteCloner, llm_cloner.py:180-215.  Text is a sequence of atoms;  *)
(* the atoms of more than one character are those of Chopped.              *)
(***************************************************************************)
\* "<!DOCTYPE html", which the atoms "<!DOCTYPE" and " html>" begin with
DoctypeHtml == <<"<!DOCTYPE", " html>">>
HtmlOpen    == "<html"
HtmlClose   == "</html>"

\* an atom of more than one character without its last character
Chopped ==
    [html |-> "htm"] @@ ("<!DOCTYPE" :> "<!DOCTYP") @@ (" html>" :> " html")
    @@ ("<html" :> "<htm") @@ ("</html>" :> "</html") @@ ("<body>" :> "<body")
    @@ ("</body>" :> "</body") @@ ("<fence>" :> "<fence")

\* text[start:-1]: from start to the end without the last character
AllButLastChar(text, start) ==
    LET rest == SubSeq(text, start, Len(text)) IN
    IF rest = <<>> THEN rest
    ELSE LET last == rest[Len(rest)]
             most == SubSeq(rest, 1, Len(rest) - 1)
         IN  IF last \in DOMAIN Chopped THEN most \o <<Chopped[last]>> ELSE most

\* str.find(sub): the first position where sub starts, 0 if none
FindSeq(text, sub) ==
    IF Contains(text, sub)
    THEN CHOOSE i \in 1..Len(text) :
            /\ StartsWith(SubSeq(text, i, Len(text)), sub)
            /\ \A j \in 1..(i - 1) : ~StartsWith(SubSeq(text, j, Len(text)), sub)
    ELSE 0

\* str.rfind(atom): the last position holding atom, 0 if none
FindLast(text, atom) ==
    IF \E i \in 1..Len(text) : text[i] = atom
    THEN CHOOSE i \in 1..Len(text) :
            text[i] = atom /\ \A j \in (i + 1)..Len(text) : text[j] # atom
    ELSE 0

\* html.startswith("<!DOCTYPE html"), also true when the final > was cut off
StartsDoctypeHtml(html) ==
    Len(html) >= 2 /\ html[1] = "<!DOCTYPE" /\ html[2] \in {" html>", " html"}

\* llm_cloner.py:180-199
extract_html_from_response(reply) ==
    LET html ==
          IF Contains(reply, Fence)
          THEN LET start == FindSeq(reply, Fence) + Len(Fence)
                   end   == FindFrom(reply, FenceEnd, start)
               IN  IF end # 0
                   THEN Strip(SubSeq(reply, start, end - 1))
                   ELSE Strip(AllButLastChar(reply, start))
          ELSE IF Contains(reply, DoctypeHtml)
          THEN Strip(SubSeq(reply, FindSeq(reply, DoctypeHtml), Len(reply)))
          ELSE Strip(reply)
    IN  IF Contains(html, <<HtmlClose>>)
        THEN SubSeq(html, 1, FindLast(html, HtmlClose))
        ELSE html

\* str.replace(sub, by)
RECURSIVE Replace(_, _, _)
Replace(text, sub, by) ==
    IF text = <<>> THEN text
    ELSE IF StartsWith(text, sub)
    THEN by \o Replace(SubSeq(text, Len(sub) + 1, Len(text)), sub, by)
    ELSE <<Head(text)>> \o Replace(Tail(text), sub, by)

HeadAndBodyOpen == <<"\n", "<head>", "\n", "<title>Cloned Website</title>", "\n",
                     "</head>", "\n", "<body>">>

\* llm_cloner.py:201-215
post_process_html(html) ==
    LET typed == IF StartsDoctypeHtml(html) THEN html ELSE DoctypeLine \o html IN
    IF ~Contains(typed, <<HtmlOpen>>)
    THEN DoctypeLine \o <<HtmlOpen, ">">> \o HeadAndBodyOpen \o <<"\n">> \o typed
         \o <<"\n", "</body>", "\n", HtmlClose>>
    ELSE IF ~Contains(typed, <<"<head>">>) /\ ~Contains(typed, <<"<body>">>)
    THEN Replace(Replace(typed, <<HtmlOpen, ">">>, <<HtmlOpen, ">">> \o HeadAndBodyOpen),
                 <<HtmlClose>>, <<"</body>", "\n", HtmlClose>>)
    ELSE typed

(***************************************************************************)
(* The prompt of HTMLGenerator.create_html, main.py:487-545, as the record *)
(* of the values it interpolates                                           *)
(***************************************************************************)
PromptNavCap     == 6
PromptHeadingCap == 5
PromptImageCap   == 20

\* [x.get('text', '') for x in entries[:cap]]
TextsOfFirst(entries, cap) ==
    LET cut == Slice(entries, cap)
    IN  List([i \in 1..Len(cut) |-> Get(cut[i].v, "text", Str(<<>>))])

\* main.py:521-525: one line for each of the first 20 images
ImageLines(all_images) ==
    LET cut == Slice(all_images, PromptImageCap)
    IN  List([i \in 1..Len(cut) |->
                Dict([number  |-> Num(i),
                      src     |-> Str(cut[i].src),
                      alt     |-> IF cut[i].alt # <<>> THEN Str(cut[i].alt) ELSE None,
                      width   |-> Num(cut[i].width),
                      height  |-> Num(cut[i].height),
                      context |-> Str(cut[i].context)])])

\* main.py:487-545
create_html_prompt(d) ==
    LET all_images == Get(d, "allImages", List(<<>>)).v
        screenshot == Get(d, "screenshot", Str(<<>>))
    IN  Dict(
        [url          |-> Get(d, "url", Str(<<>>)),
         background   |-> Get(d, "backgroundColor", Str(White)),
         text_color   |-> Get(d, "textColor", Str(DefaultText)),
         font         |-> Get(d, "fontFamily", Str(<<"system-ui">>)),
         title        |-> Get(d, "title", Str(<<"Website">>)),
         logo         |-> Get(d, "logo", None),
         navigation   |-> TextsOfFirst(Get(d, "navigation", List(<<>>)).v, PromptNavCap),
         headings     |-> TextsOfFirst(Get(d, "headings", List(<<>>)).v, PromptHeadingCap),
         image_count  |-> Num(Len(all_images)),
         total_images |-> Get(d, "totalImagesFound", Num(0)),
         images       |-> ImageLines(all_images),
         \* main.py:527-528: "... and N more images available"
         more_images  |-> IF Len(all_images) > PromptImageCap
                          THEN Num(Len(all_images) - PromptImageCap) ELSE None,
         \* main.py:544-545: a sentence saying that a screenshot was captured
         screenshot_captured |-> Bool(Truthy(screenshot))])

(***************************************************************************)
(* LLMWebsiteCloner._prepare_context and _create_user_prompt,              *)
(* llm_cloner.py:57-178                                                    *)
(***************************************************************************)
ContextColorCap  == 15
ContextFontCap   == 5
BodyPreviewCap   == 4000
PromptColorCap   == 8
PromptFontCap    == 3
ClonerNavCap     == 10
ClonerHeadingCap == 15
KiB              == 1024

\* a base64 string known by its identity and its length in characters
B64(id, length) == [t |-> "b64", v |-> <<id, length>>]

\* faulty variant: the description of a screenshot is the screenshot
ScreenshotsInfo_Payload(scrape_data) ==
    Get(scrape_data, "screenshots", Dict(<<>>))

\* llm_cloner.py:61-67
ScreenshotsInfo(scrape_data) ==
    IF "screenshots" \in DOMAIN scrape_data
    THEN LET shots == scrape_data["screenshots"].v IN
         Dict([device \in DOMAIN shots |->
                 Dict([has_screenshot |-> Bool(TRUE),
                       size_kb |-> Num(IF shots[device].v[2] > 0
                                       THEN shots[device].v[2] \div KiB ELSE 0)])])
    ELSE Dict(<<>>)

\* llm_cloner.py:57-90
prepare_context(scrape_data) ==
    LET structure == Get(scrape_data, "html_structure", Dict(<<>>)).v
        Field(k)  == Get(scrape_data, k, Dict(<<>>))
    IN  [url                 |-> Get(scrape_data, "url", Str(<<>>)),
         title               |-> Get(scrape_data, "title", Str(<<>>)),
         screenshots_info    |-> ScreenshotsInfo(scrape_data),
         html_structure      |-> Dict(
             [headings          |-> Get(structure, "headings", List(<<>>)),
              navigation        |-> Get(structure, "navigation", List(<<>>)),
              body_html_preview |-> Str(Slice(Get(structure, "body_html", Str(<<>>)).v,
                                              BodyPreviewCap)),
              sections          |-> Get(structure, "sections", List(<<>>)),
              semantic_tags     |-> Get(structure, "semantic_tags", Dict(<<>>))]),
         text_content        |-> Field("text_content"),
         media_content       |-> Field("media_content"),
         colors              |-> List(Slice(Get(scrape_data, "colors", List(<<>>)).v,
                                            ContextColorCap)),
         fonts               |-> List(Slice(Get(scrape_data, "fonts", List(<<>>)).v,
                                            ContextFontCap)),
         layout              |-> Field("layout_analysis"),
         components          |-> Field("components"),
         interactions        |-> Field("interactions"),
         responsive_behavior |-> Field("responsive_behavior"),
         visual_hierarchy    |-> Field("visual_hierarchy"),
         meta_info           |-> Field("meta_info")]

\* llm_cloner.py:120-178: the values the prompt interpolates
create_user_prompt(context) ==
    LET structure == Get(context, "html_structure", Dict(<<>>)).v
        Field(k)  == Get(context, k, Dict(<<>>))
    IN  Dict(
        [url                 |-> context["url"],
         title               |-> context["title"],
         visual_hierarchy    |-> Field("visual_hierarchy"),
         layout              |-> Field("layout"),
         responsive_behavior |-> Field("responsive_behavior"),
         components          |-> Field("components"),
         colors              |-> List(Slice(Get(context, "colors", List(<<>>)).v,
                                            PromptColorCap)),
         fonts               |-> List(Slice(Get(context, "fonts", List(<<>>)).v,
                                            PromptFontCap)),
         navigation          |-> List(Slice(Get(structure, "navigation", List(<<>>)).v,
                                            ClonerNavCap)),
         headings            |-> List(Slice(Get(structure, "headings", List(<<>>)).v,
                                            ClonerHeadingCap)),
         text_content        |-> Field("text_content"),
         media_content       |-> Field("media_content"),
         interactions        |-> Field("interactions"),
         body_html_preview   |-> Get(structure, "body_html_preview", Str(<<>>))])

(***************************************************************************)
(* clone_website, main.py:658-802                                          *)
(***************************************************************************)
NoResponse == [success |-> FALSE, generated_html |-> <<>>, original_url |-> <<>>,
               error_message |-> None, sent |-> FALSE]

\* main.py:665-666
WithScheme(url) ==
    IF Len(url) > 0 /\ Head(url) \in {"http://", "https://"} THEN url
    ELSE <<"https://">> \o url

\* main.py:742-795: the error page
ErrorHtml(error_msg, url, e) ==
    <<"<!DOCTYPE", " html>", "\n", "<html", ">", "\n", "<head>", "</head>", "\n",
      "<body>", "<h1>Super Clone Failed</h1>", "Error: ">> \o error_msg \o
    <<"URL: ">> \o url \o
    <<"Playwright: ", IF e.playwright THEN "Available" ELSE "Not Available",
      "MCP: ", IF e.agent THEN "Ready" ELSE "Not Ready",
      "</body>", "\n", "</html>">>

\* main.py:683-699
McpFallback(url, mcp_data) ==
    [url |-> Str(url), siteType |-> Str(<<"standard">>),
     backgroundColor |-> Str(White), textColor |-> Str(DefaultText),
     fontFamily |-> Str(<<"arial, sans-serif">>), title |-> Str(<<"Website">>),
     navigation |-> List(<<Str(<<"Home">>), Str(<<"About">>), Str(<<"Contact">>)>>),
     headings |-> List(<<Str(<<"Welcome">>), Str(<<"About Us">>)>>),
     logo |-> Dict([type |-> Str(<<"text">>), text |-> Str(<<"Brand">>)]),
     isDark |-> Bool(FALSE), hasSearch |-> Bool(FALSE), hasVideo |-> Bool(FALSE),
     allImages |-> List(<<>>), totalImagesFound |-> Num(0),
     mcp_data |-> mcp_data]

\* main.py:706-721
MinimalFallback(url) ==
    [url |-> Str(url), siteType |-> Str(<<"standard">>),
     backgroundColor |-> Str(White), textColor |-> Str(DefaultText),
     fontFamily |-> Str(<<"system-ui, sans-serif">>), title |-> Str(<<"Website">>),
     navigation |-> List(<<Str(<<"Home">>), Str(<<"About">>), Str(<<"Contact">>)>>),
     headings |-> List(<<Str(<<"Welcome to Our Website">>)>>),
     logo |-> Dict([type |-> Str(<<"text">>), text |-> Str(<<"Website">>)]),
     isDark |-> Bool(FALSE), hasSearch |-> Bool(FALSE), hasVideo |-> Bool(FALSE),
     allImages |-> List(<<>>), totalImagesFound |-> Num(0)]

\* main.py:797-802
Failure(error_msg) ==
    [success |-> FALSE,
     generated_html |-> ErrorHtml(error_msg, request.url, env),
     original_url |-> request.url,
     error_message |-> Str(error_msg), sent |-> TRUE]

(* main.py:724-736 with the handler of 738-802: cleanup, generator, model    *)
(* call and response; d is `data` as it stands before line 725               *)
Respond(d, outcome) ==
    IF safe_data_cleanup_raises(d)
    THEN /\ data' = d
         /\ modelCalls' = modelCalls
         /\ response' = Failure(<<"object is not iterable">>)
    ELSE
    /\ data' = safe_data_cleanup(d)
    /\ IF ~env.apiKey
       THEN /\ modelCalls' = modelCalls
            /\ response' = Failure(<<"ANTHROPIC_API_KEY required">>)
       ELSE LET r == create_html(safe_data_cleanup(d), outcome) IN
            /\ modelCalls' = IF "error" \in DOMAIN safe_data_cleanup(d)
                             THEN modelCalls ELSE Append(modelCalls, outcome.kind)
            /\ response' = IF r.raised THEN Failure(r.text)
                           ELSE [success |-> TRUE, generated_html |-> r.text,
                                 original_url |-> WithScheme(request.url),
                                 error_message |-> None, sent |-> TRUE]

\* scrape_with_mcp, main.py:460-471, once agent_primary.ainvoke has ended
scrape_with_mcp(agentOk) ==
    IF agentOk THEN [mcp_data |-> Str(<<"agent result">>)] ELSE <<>>

\* faulty variant: the backup is tried whenever the agent exists
NeedsBackup_Always(d, agent) == agent

\* main.py:678: if "error" in data and agent_primary
NeedsBackup(d, agent) == "error" \in DOMAIN d /\ agent

\* main.py:659-666, up to the call of scrape_with_super_playwright
CloneStart ==
    /\ entry = "clone" /\ pc = "start"
    /\ pc' = "scrape"
    /\ spc' = "check"
    /\ UNCHANGED <<entry, request, env, sidx, cycles, pw, browser, navLog, steps,
                   scrapeOut, data, fallbacks, agentCalls, modelCalls, response,
                   page, fin, fout>>

(* main.py:670-678, then either the call of scrape_with_mcp or lines 724-802 *)
CloneScraped ==
    /\ entry = "clone" /\ pc = "scrape" /\ spc = "returned"
    /\ LET got == scrapeOut.val
           d   == IF "error" \in DOMAIN got
                  THEN [error |-> Str(<<"Super Playwright failed: ">> \o
                                      PyStr(got["error"]))]
                  ELSE got
       IN  IF NeedsBackup(d, env.agent)
           THEN /\ data' = d
                /\ pc' = "mcp"
                /\ UNCHANGED <<modelCalls, response>>
           ELSE /\ \E outcome \in ModelOutcomes : Respond(d, outcome)
                /\ pc' = "done"
    /\ UNCHANGED <<entry, request, env, spc, sidx, cycles, pw, browser, navLog, steps,
                   scrapeOut, fallbacks, agentCalls, page, fin, fout>>

(* main.py:679-722 once scrape_with_mcp has returned, then lines 724-802 *)
CloneBackup ==
    /\ entry = "clone" /\ pc = "mcp"
    /\ \E agentOk \in BOOLEAN, outcome \in ModelOutcomes :
         LET mcp_data == scrape_with_mcp(agentOk)
             url == WithScheme(request.url)
         IN  /\ agentCalls' = agentCalls + 1
             /\ IF DOMAIN mcp_data # {} /\ Truthy(Get(mcp_data, "mcp_data", None))
                THEN LET d == McpFallback(url, Get(mcp_data, "mcp_data", Str(EmptyText)))
                     IN  /\ fallbacks' = Append(fallbacks, d)
                         /\ Respond(d, outcome)
                ELSE /\ fallbacks' = Append(fallbacks, MinimalFallback(url))
                     /\ Respond(MinimalFallback(url), outcome)
    /\ pc' = "done"
    /\ UNCHANGED <<entry, request, env, spc, sidx, cycles, pw, browser, navLog, steps,
                   scrapeOut, page, fin, fout>>

(***************************************************************************)
(* extract_images, main.py:805-864                                         *)
(***************************************************************************)
SmallLimit == 100

NoImageResponse ==
    [success |-> FALSE, url |-> <<>>, total_images |-> 0, images |-> <<>>,
     screenshot_base64 |-> None, error_message |-> None, sent |-> FALSE]

\* faulty variant: the failure response drops the failure text
ImageFailure_NoMessage(error_msg) ==
    [success |-> FALSE, url |-> request.url, total_images |-> 0, images |-> <<>>,
     screenshot_base64 |-> None, error_message |-> None, sent |-> TRUE]

\* main.py:854-864
ImageFailure(error_msg) ==
    [success |-> FALSE, url |-> request.url, total_images |-> 0, images |-> <<>>,
     screenshot_base64 |-> None, error_message |-> Str(error_msg), sent |-> TRUE]

(* main.py:828-829: `>=` between an int and None raises TypeError; `and`    *)
(* does not evaluate its right side when the left side is false             *)
FilterRaises(img, req) ==
    \/ req.min_width = None
    \/ img.width >= req.min_width.v /\ req.min_height = None

\* faulty variant: include_small is not consulted
PassesFilter_SizesOnly(img, req) ==
    /\ img.width >= req.min_width.v
    /\ img.height >= req.min_height.v

\* main.py:828-830, when the comparisons do not raise
PassesFilter(img, req) ==
    /\ img.width >= req.min_width.v
    /\ img.height >= req.min_height.v
    /\ \/ Truthy(req.include_small)
       \/ img.width >= SmallLimit /\ img.height >= SmallLimit

\* main.py:831-839
ExtractedImage(img) ==
    [src |-> img.src, alt |-> img.alt, width |-> img.width, height |-> img.height,
     format |-> img.format, context |-> img.context, is_base64 |-> img.is_base64]

(* main.py:826-839: for img in all_images; acc is [raised, filtered_images] *)
RECURSIVE FilterLoop(_, _, _)
FilterLoop(all_images, req, acc) ==
    IF all_images = <<>> \/ acc.raised THEN acc
    ELSE LET img == Head(all_images) IN
         FilterLoop(Tail(all_images), req,
             IF FilterRaises(img, req)
             THEN [acc EXCEPT !.raised = TRUE]
             ELSE IF PassesFilter(img, req)
             THEN [acc EXCEPT !.filtered_images = Append(@, ExtractedImage(img))]
             ELSE acc)

(* main.py:842: filtered_images[:request.image_limit].  A slice up to None  *)
(* is the whole list; a negative bound counts from the end of the list.     *)
PySliceTo(s, k) ==
    IF k = None THEN s
    ELSE IF k.v >= 0 THEN SubSeq(s, 1, IF k.v < Len(s) THEN k.v ELSE Len(s))
    ELSE SubSeq(s, 1, IF Len(s) + k.v > 0 THEN Len(s) + k.v ELSE 0)

\* main.py:809-817: up to the call of scrape_with_super_playwright
ExtractStart ==
    /\ entry = "extract_images" /\ pc = "start"
    /\ pc' = "scrape"
    /\ spc' = "check"
    /\ UNCHANGED <<entry, request, env, sidx, cycles, pw, browser, navLog, steps,
                   scrapeOut, data, fallbacks, agentCalls, modelCalls, response,
                   page, fin, fout>>

(* main.py:817-864 once scrape_with_super_playwright has returned.  fout    *)
(* keeps the local filtered_images as it stands before line 842.            *)
ExtractScraped ==
    /\ entry = "extract_images" /\ pc = "scrape" /\ spc = "returned"
    /\ data' = scrapeOut.val
    /\ pc' = "done"
    /\ IF "error" \in DOMAIN scrapeOut.val
       THEN /\ response' = ImageFailure(PyStr(scrapeOut.val["error"]))
            /\ UNCHANGED fout
       ELSE LET all_images == Get(scrapeOut.val, "allImages", List(<<>>)).v
                looped == FilterLoop(all_images, request,
                                     [raised |-> FALSE, filtered_images |-> <<>>])
                limited == PySliceTo(looped.filtered_images, request.image_limit)
            IN  IF looped.raised
                THEN /\ response' = ImageFailure(<<">= not supported between int and NoneType">>)
                     /\ UNCHANGED fout
                ELSE /\ response' =
                          [success |-> TRUE, url |-> WithScheme(request.url),
                           total_images |-> Len(limited), images |-> limited,
                           screenshot_base64 |-> Get(scrapeOut.val, "screenshot", None),
                           error_message |-> None, sent |-> TRUE]
                     /\ fout' = [filtered |-> TRUE,
                                 filtered_images |-> looped.filtered_images]
    /\ UNCHANGED <<entry, request, env, spc, sidx, cycles, pw, browser, navLog, steps,
                   scrapeOut, fallbacks, agentCalls, modelCalls, page, fin>>

(***************************************************************************)
(* Sample pages                                                            *)
(***************************************************************************)
Origin == <<"h","t","t","p","s",":","/","/","s">>

\* the elements a document is drawn from, in document order
Pool == <<
    [tagName |-> "IMG", src |-> <<"h","t","t","p","s",":","/","/","s","/","a",".","p">>, dataSrc |-> <<>>, w |-> 4, h |-> 3,
     ow |-> 2, oh |-> 2, alt |-> <<"hero">>, throws |-> FALSE, bg |-> <<>>],
    [tagName |-> "DIV", src |-> <<>>, dataSrc |-> <<"/","a",".","p">>, w |-> 0, h |-> 0,
     ow |-> 1, oh |-> 1, alt |-> <<"tile">>, throws |-> FALSE, bg |-> << <<"a",".","p">> >>],
    [tagName |-> "CANVAS", src |-> <<>>, dataSrc |-> <<"x",".","p">>, w |-> 3, h |-> 3,
     ow |-> 3, oh |-> 3, alt |-> <<>>, throws |-> TRUE, bg |-> <<>>],
    [tagName |-> "IMG", src |-> <<>>, dataSrc |-> <<>>, w |-> 0, h |-> 0,
     ow |-> 5, oh |-> 5, alt |-> <<>>, throws |-> FALSE, bg |-> << <<"/","/","c","/","b">>, <<"/","a",".","p">> >>],
    [tagName |-> "SOURCE", src |-> <<"/","/","c","/","b">>, dataSrc |-> <<>>, w |-> 2, h |-> 6,
     ow |-> 0, oh |-> 0, alt |-> <<>>, throws |-> FALSE, bg |-> <<>>] >>

DocOf(S) == [i \in 1..Cardinality(S) |-> Pool[InDocumentOrder(S)[i]]]

\* the page-level facts of a page with a dark body, an image logo and links
PageA(doc, selectors) ==
    [href |-> Origin \o Slash, origin |-> Origin, doc |-> doc, selectors |-> selectors,
     bodyStyles |-> [backgroundColor |-> <<"r","g","b","(","0",","," ","0",","," ","0",")">>, color |-> <<"r","g","b","(","2","5","5",","," ","2","5","5",","," ","2","5","5",")">>,
                     fontFamily |-> <<"Arial">>],
     title |-> <<"Shop">>,
     logoImgs |-> << [src |-> <<>>, alt |-> <<>>],
                     [src |-> <<"h","t","t","p","s",":","/","/","s","/","l",".","p">>, alt |-> <<"logo">>] >>,
     logoTexts |-> << <<"Shop">> >>,
     navMatches |-> << << [text |-> <<"H","o","m","e">>, href |-> Origin \o Slash],
                          [text |-> <<>>, href |-> <<>>] >>,
                       << [text |-> <<"H","o","m","e">>, href |-> Origin \o Slash] >> >>,
     headingEls |-> << [text |-> <<"Sale">>, level |-> <<"h1">>],
                       [text |-> <<>>, level |-> <<"h2">>] >>,
     hasSearch |-> TRUE, hasVideo |-> FALSE]

\* the page-level facts of a page with a transparent body and nothing else
PageB(doc, selectors) ==
    [href |-> Origin \o Slash, origin |-> Origin, doc |-> doc, selectors |-> selectors,
     bodyStyles |-> [backgroundColor |-> Transparent, color |-> <<>>,
                     fontFamily |-> <<"serif">>],
     title |-> <<>>,
     logoImgs |-> <<>>, logoTexts |-> <<>>, navMatches |-> <<>>, headingEls |-> <<>>,
     hasSearch |-> FALSE, hasVideo |-> FALSE]

SamplePages ==
    { PageA(Pool, << [throws |-> FALSE, els |-> {1, 4}], [throws |-> TRUE, els |-> {}],
                     [throws |-> FALSE, els |-> {1, 2, 3, 5}] >>),
      PageB(<<>>, << [throws |-> FALSE, els |-> {}] >>) }

(***************************************************************************)
(* The request pipeline: one /clone request, or one scrape_website run     *)
(***************************************************************************)
SeqsUpTo(S, n) == UNION { [1..k -> S] : k \in 0..n }

RequestUrls == { <<"https://", "site.test/">>, <<"http://", "site.test/">> }

(* agent_primary is only created when ANTHROPIC_API_KEY was set at import    *)
(* (main.py:84-89, 109-117), so an agent implies the key                     *)
Envs == { e \in [playwright : BOOLEAN, agent : BOOLEAN, apiKey : BOOLEAN] :
            e.agent => e.apiKey }

IdleHelpers == fin = <<>> /\ fout = <<>>

Init ==
    /\ entry \in {"clone", "scrape_website"}
    /\ request \in [url : RequestUrls]
    /\ env \in Envs
    /\ entry = "scrape_website" =>
          /\ env = [playwright |-> TRUE, agent |-> FALSE, apiKey |-> TRUE]
          /\ request.url = <<"https://", "site.test/">>
    /\ page \in SamplePages
    /\ entry = "scrape_website" => page.doc = <<>>
    /\ pc = IF entry = "clone" THEN "start" ELSE "idle"
    /\ spc = IF entry = "scrape_website" THEN "enter" ELSE "idle"
    /\ sidx = 1
    /\ cycles = 0
    /\ pw = "none"
    /\ browser = "none"
    /\ navLog = <<>>
    /\ steps = <<>>
    /\ scrapeOut = NoOutcome
    /\ data = <<>>
    /\ fallbacks = <<>>
    /\ agentCalls = 0
    /\ modelCalls = <<>>
    /\ response = NoResponse
    /\ IdleHelpers

Next ==
    \/ CloneStart
    \/ SuperCheck
    \/ SuperEnter
    \/ SuperLaunch
    \/ SuperNewPage
    \/ SuperGoto
    \/ SuperWait
    \/ SuperScroll
    \/ SuperScreenshot
    \/ SuperEvaluate
    \/ SuperClose
    \/ CloneScraped
    \/ CloneBackup
    \/ WebSetup
    \/ smart_navigation
    \/ WebStep
    \/ WebFinally

Spec == Init /\ [][Next]_vars

(***************************************************************************)
(* The URL helpers applied to bounded inputs: resolveUrl on a source, as    *)
(* the script does at main.py:301 and 333, resolveUrl once more on its      *)
(* result, and getImageFormat on the resolved URL (main.py:309, 342)        *)
(***************************************************************************)
MaxTail == 4

TailChars   == {"s", "G", ".", "?", "+"}
UrlPrefixes == { <<>>, <<"/">>, <<"/","/">>, <<"h","t","t","p",":","/","/","x">>, <<"h","t","t","p","s",":","/","/","x",".","c">>, <<"h","t","t","p">>, <<"d","a","t","a",":">>, <<"d","a","t","a",":","i","m","a","g","e","/">>, <<"h","t","t","p","s",":","/","/","x",".","c","/">>, <<"x","/">> }
Origins     == { <<"h","t","t","p","s",":","/","/","s">>, <<"h","t","t","p",":","/","/","s",":","8">> }

UrlInputs == { p \o t : p \in UrlPrefixes, t \in SeqsUpTo(TailChars, MaxTail) } \ {<<>>}

NotComputed == <<"not computed">>

IdlePipeline(e) ==
    /\ entry = e
    /\ request = [url |-> <<>>]
    /\ env = [playwright |-> FALSE, agent |-> FALSE, apiKey |-> FALSE]
    /\ pc = "idle" /\ spc = "idle" /\ sidx = 1 /\ cycles = 0
    /\ pw = "none" /\ browser = "none"
    /\ navLog = <<>> /\ steps = <<>> /\ scrapeOut = NoOutcome
    /\ data = <<>> /\ fallbacks = <<>> /\ agentCalls = 0 /\ modelCalls = <<>>
    /\ response = NoResponse

InitUrl ==
    /\ IdlePipeline("helpers")
    /\ page = <<>>
    /\ fin \in [src : UrlInputs, origin : Origins]
    /\ fout = [resolved |-> <<>>, format |-> NotComputed]

\* resolveUrl applied to the source, then to its own result
ApplyResolveUrl ==
    /\ entry = "helpers" /\ Len(fout.resolved) < 2
    /\ fout' = [fout EXCEPT !.resolved =
                  Append(@, resolveUrl(IF @ = <<>> THEN fin.src ELSE @[Len(@)],
                                       fin.origin))]
    /\ UNCHANGED <<pipelineVars, page, fin>>

\* getImageFormat applied to the resolved URL
ApplyGetImageFormat ==
    /\ entry = "helpers" /\ Len(fout.resolved) = 1 /\ fout.format = NotComputed
    /\ fout' = [fout EXCEPT !.format = getImageFormat(fout.resolved[1])]
    /\ UNCHANGED <<pipelineVars, page, fin>>

NextUrl == ApplyResolveUrl \/ ApplyGetImageFormat

SpecUrl == InitUrl /\ [][NextUrl]_vars

(***************************************************************************)
(* The extraction script applied to bounded pages                          *)
(***************************************************************************)
MaxSelectors == 2

SelectorResults(n) ==
    { [throws |-> TRUE, els |-> {}] } \cup
    { [throws |-> FALSE, els |-> T] : T \in SUBSET (1..n) }

ExtractPages ==
    UNION { { PageA(DocOf(S), sels) :
                sels \in SeqsUpTo(SelectorResults(Cardinality(S)), MaxSelectors) } :
            S \in SUBSET (1..Len(Pool)) }

InitExtract ==
    /\ IdlePipeline("script")
    /\ page \in ExtractPages
    /\ fin = <<>>
    /\ fout = [ran |-> FALSE, visual_data |-> <<>>]

\* page.evaluate of the extraction script, main.py:207-446
RunScript ==
    /\ entry = "script" /\ ~fout.ran
    /\ fout' = [ran |-> TRUE, visual_data |-> VisualData(page)]
    /\ UNCHANGED <<pipelineVars, page, fin>>

NextExtract == RunScript

SpecExtract == InitExtract /\ [][NextExtract]_vars

(***************************************************************************)
(* The extraction script applied to pages of many images: the sort and the *)
(* cap of main.py:427-441                                                  *)
(***************************************************************************)
MaxImages == 101

\* an <img> with its own URL and the given natural size
SizedImg(i, w, h) ==
    [tagName |-> "IMG", src |-> Origin \o Slash \o NatText(i), dataSrc |-> <<>>,
     w |-> w, h |-> h, ow |-> 0, oh |-> 0, alt |-> NatText(i), throws |-> FALSE,
     bg |-> <<>>]

\* n images whose sizes repeat with periods m and 2
PatternDoc(n, m) == [i \in 1..n |-> SizedImg(i, 1 + ((i * 2) % m), 1 + (i % 2))]

\* images of the given sizes, in document order
SizesDoc(sizes) == [i \in 1..Len(sizes) |-> SizedImg(i, sizes[i][1], sizes[i][2])]

SmallSizes == { <<0, 5>>, <<1, 2>>, <<2, 1>>, <<2, 2>> }

\* one selector that matches every image, or one that matches the images at
\* even positions followed by one that matches every image
RankSelectors(n) ==
    { << [throws |-> FALSE, els |-> 1..n] >>,
      << [throws |-> FALSE, els |-> { i \in 1..n : i % 2 = 0 }],
         [throws |-> FALSE, els |-> 1..n] >> }

\* pages of about as many images as the cap allows, and every page of up
\* to three images of the small sizes
RankPages ==
    UNION { { PageB(PatternDoc(n, m), sels) : sels \in RankSelectors(n) } :
            <<n, m>> \in ((MaxImages - 3)..MaxImages) \X {1, 3} }
    \cup
    UNION { { PageB(SizesDoc(sizes), sels) : sels \in RankSelectors(Len(sizes)) } :
            sizes \in SeqsUpTo(SmallSizes, 3) }

InitRank ==
    /\ IdlePipeline("script")
    /\ page \in RankPages
    /\ fin = <<>>
    /\ fout = [ran |-> FALSE, visual_data |-> <<>>]

SpecRank == InitRank /\ [][NextExtract]_vars

(***************************************************************************)
(* One /extract-images request                                             *)
(***************************************************************************)
MaxLimit == 3

\* Optional[int] and Optional[bool] fields (main.py:54-57)
ImageLimits   == { None } \cup { Num(k) : k \in (0 - 2)..MaxLimit }
MinSizes      == { None, Num(10), Num(100) }
IncludeSmalls == { None, Bool(TRUE), Bool(FALSE) }

ImageRequests ==
    [url : RequestUrls, image_limit : ImageLimits, min_width : MinSizes,
     min_height : MinSizes, include_small : IncludeSmalls]

ImageSizes == << <<80, 80>>, <<100, 100>>, <<9, 200>>, <<150, 99>>, <<120, 120>>,
                 <<10, 10>> >>

ImagePages ==
    { PageB(SizesDoc(ImageSizes), << [throws |-> FALSE, els |-> 1..Len(ImageSizes)] >>),
      PageB(SizesDoc(SubSeq(ImageSizes, 1, 2)), << [throws |-> FALSE, els |-> {1, 2}] >>),
      PageB(<<>>, << [throws |-> FALSE, els |-> {}] >>) }

InitImages ==
    /\ entry = "extract_images"
    /\ request \in ImageRequests
    /\ env \in { e \in Envs : ~e.agent /\ ~e.apiKey }
    /\ page \in ImagePages
    /\ pc = "start" /\ spc = "idle" /\ sidx = 1 /\ cycles = 0
    /\ pw = "none" /\ browser = "none"
    /\ navLog = <<>> /\ steps = <<>> /\ scrapeOut = NoOutcome
    /\ data = <<>> /\ fallbacks = <<>> /\ agentCalls = 0 /\ modelCalls = <<>>
    /\ response = NoImageResponse
    /\ fin = <<>>
    /\ fout = [filtered |-> FALSE, filtered_images |-> <<>>]

NextImages ==
    \/ ExtractStart
    \/ SuperCheck
    \/ SuperEnter
    \/ SuperLaunch
    \/ SuperNewPage
    \/ SuperGoto
    \/ SuperWait
    \/ SuperScroll
    \/ SuperScreenshot
    \/ SuperEvaluate
    \/ SuperClose
    \/ ExtractScraped

SpecImages == InitImages /\ [][NextImages]_vars

(***************************************************************************)
(* safe_data_cleanup applied to bounded inputs, and create_html applied to *)
(* its output (main.py:725-729)                                            *)
(***************************************************************************)
\* marks a key that the input does not have
Absent == [t |-> "absent", v |-> <<>>]

With(base, k, x) ==
    IF x = Absent THEN [j \in DOMAIN base \ {k} |-> base[j]]
    ELSE (k :> x) @@ base

\* values of any type
AnyValues ==
    { Absent, None, Str(<<>>), Str(<<"x">>), Num(0), Num(5), Bool(TRUE), Bool(FALSE),
      List(<<>>), Dict([type |-> Str(<<"text">>)]) }

\* navigation and headings values
EntryValues ==
    { Absent, None, Num(5), Str(<<"a", "b">>), List(<<>>),
      List(<<Str(<<>>)>>),
      List(<<Str(<<"Home">>), Str(<<"Blog">>)>>),
      List(<<Dict([text |-> Str(<<>>), href |-> Str(<<"/">>)]), Num(1), None>>),
      List(<<Dict([text |-> Num(5)])>>),
      List(<<Dict([text |-> Str(<<"A">>), href |-> Str(<<"/a">>), level |-> Str(<<"h2">>)]),
             Dict([text |-> Str(<<>>)]),
             Str(<<"B">>),
             Dict([text |-> Str(<<"C">>)])>>),
      List(<<Dict([text |-> Str(<<"A">>), href |-> Num(7), level |-> None])>>),
      Dict([text |-> Str(<<"A">>)]) }

LogoValues ==
    { Absent, None, Str(<<"x">>), List(<<>>), Dict(<<>>),
      Dict([type |-> Str(<<"text">>), text |-> Str(<<"Brand">>)]),
      Dict([type |-> Str(<<"text">>), text |-> Str(<<>>)]),
      Dict([type |-> Str(<<"text">>), text |-> Num(5)]),
      Dict([type |-> Str(<<"text">>)]),
      Dict([type |-> Str(<<"image">>), src |-> Str(<<"l.p">>), alt |-> Str(<<"logo">>)]),
      Dict([type |-> Str(<<"image">>), src |-> Str(<<"l.p">>)]),
      Dict([type |-> Str(<<"image">>), alt |-> Str(<<"logo">>)]),
      Dict([type |-> Str(<<"video">>), src |-> Str(<<"l.p">>), text |-> Str(<<"Brand">>)]),
      Dict([text |-> Str(<<"Brand">>)]) }

TitleValues == { Absent, None, Num(5), Str(<<>>), Str(<<"Shop">>) }

ImagesValues ==
    { List(<<ImageRecord(Origin \o Slash \o <<"a", ".", "p">>, <<"hero">>, 4, 3,
                         <<"img-element">>)>>),
      List(<<Str(<<"a.p">>)>>), Str(<<"a.p">>) }

OtherKeys == { "url", "siteType", "backgroundColor", "textColor", "fontFamily",
               "screenshot", "isDark", "hasSearch", "hasVideo", "allImages",
               "totalImagesFound" }

\* what the pipeline itself hands to safe_data_cleanup (main.py:670-725)
PipelineData ==
    { [error |-> Str(<<"Super Playwright failed: Playwright not available">>)],
      McpFallback(<<"https://", "site.test/">>, Str(<<"agent text">>)),
      MinimalFallback(<<"https://", "site.test/">>) }
    \cup { VisualData(pg) @@ [screenshot |-> Str(ScreenshotB64)] : pg \in SamplePages }

NoKeys == [k \in {} |-> None]

CleanupBases == { NoKeys } \cup { VisualData(pg) : pg \in SamplePages }

CleanupInputs ==
    PipelineData
    \cup { With(With(b, "navigation", n), "headings", h) :
             b \in CleanupBases, n \in EntryValues, h \in EntryValues }
    \cup { With(With(b, "logo", l), "title", t) :
             b \in CleanupBases, l \in LogoValues, t \in TitleValues }
    \cup { With(b, k, x) : b \in CleanupBases, k \in OtherKeys,
                            x \in AnyValues \cup ImagesValues }

InitCleanup ==
    /\ IdlePipeline("cleanup")
    /\ page = <<>>
    /\ fin \in [d : CleanupInputs]
    /\ fout = [stage |-> "input", safe_data |-> NoKeys, created |-> FALSE, failure |-> <<>>,
               again |-> NoKeys]

\* main.py:725: data = safe_data_cleanup(data)
ApplyCleanup ==
    /\ entry = "cleanup" /\ fout.stage = "input"
    /\ fout' = IF safe_data_cleanup_raises(fin.d)
               THEN [fout EXCEPT !.stage = "raised"]
               ELSE [fout EXCEPT !.stage = "cleaned",
                                 !.safe_data = safe_data_cleanup(fin.d)]
    /\ UNCHANGED <<pipelineVars, page, fin>>

\* main.py:729: html_content = generator.create_html(data)
ApplyCreateHtml ==
    /\ entry = "cleanup" /\ fout.stage = "cleaned"
    /\ \E outcome \in ModelOutcomes :
         LET r == create_html(fout.safe_data, outcome) IN
         fout' = [fout EXCEPT !.stage = "prompted",
                              !.created = ~r.raised,
                              !.failure = IF r.raised THEN r.text ELSE <<>>]
    /\ UNCHANGED <<pipelineVars, page, fin>>

\* safe_data_cleanup applied to its own output
ReapplyCleanup ==
    /\ entry = "cleanup" /\ fout.stage = "cleaned"
    /\ fout' = IF safe_data_cleanup_raises(fout.safe_data)
               THEN [fout EXCEPT !.stage = "raised again"]
               ELSE [fout EXCEPT !.stage = "again",
                                 !.again = safe_data_cleanup(fout.safe_data)]
    /\ UNCHANGED <<pipelineVars, page, fin>>

NextCleanup == ApplyCleanup \/ ApplyCreateHtml \/ ReapplyCleanup

SpecCleanup == InitCleanup /\ [][NextCleanup]_vars

(***************************************************************************)
(* The two ways a model response becomes the returned document             *)
(***************************************************************************)
MaxAtoms == 4

HtmlAtoms == { "<fence>", "html", "<!DOCTYPE", " html>", "<html", ">", "</html>",
               "<body>", "\n", "x" }

ResponseTexts == SeqsUpTo(HtmlAtoms, MaxAtoms)

\* what may stand before the fenced block, inside it, and after it; a tail
\* that is empty leaves the block without its closing fence
Leads  == { <<>>, <<"Here is the page:", "\n">> }
Blocks == { <<"<!DOCTYPE", " html>", "\n", "<html", ">", "<body>", "x", "</body>", "</html>">>,
            <<"<html", ">", "x", "</html>">>,
            <<"<html", ">", "x", "</html>", "\n", "x">>,
            <<"<body>", "x", "</body>">>,
            <<"x">> }
Tails  == { <<>>, <<"\n", "<fence>">>, <<"\n", "<fence>", "\n", "Enjoy.">> }

FencedReplies ==
    { [text |-> lead \o Fence \o <<"\n">> \o block \o tail, fenced |-> TRUE,
       block |-> block, closed |-> tail # <<>>] :
        lead \in Leads, block \in Blocks, tail \in Tails }

PlainReplies ==
    { [text |-> t, fenced |-> FALSE, block |-> <<>>, closed |-> FALSE] :
        t \in ResponseTexts }

InitHtml ==
    /\ IdlePipeline("html")
    /\ page = <<>>
    /\ fin \in PlainReplies \cup FencedReplies
    /\ fout = [by |-> "none", html |-> <<>>, extracted |-> <<>>]

\* main.py:555-567
ApplyCleanHtml ==
    /\ entry = "html" /\ fout.by = "none"
    /\ fout' = [by |-> "create_html", html |-> CleanHtml(fin.text),
                extracted |-> CleanHtml(fin.text)]
    /\ UNCHANGED <<pipelineVars, page, fin>>

\* llm_cloner.py:44-52
ApplyClonerHtml ==
    /\ entry = "html" /\ fout.by = "none"
    /\ fout' = [by |-> "LLMWebsiteCloner",
                html |-> post_process_html(extract_html_from_response(fin.text)),
                extracted |-> extract_html_from_response(fin.text)]
    /\ UNCHANGED <<pipelineVars, page, fin>>

NextHtml == ApplyCleanHtml \/ ApplyClonerHtml

SpecHtml == InitHtml /\ [][NextHtml]_vars

(***************************************************************************)
(* What the model is given: the prompt of create_html for a cleaned        *)
(* snapshot, and the context and prompt of LLMWebsiteCloner for a scrape   *)
(***************************************************************************)
MaxOver == 2

\* list lengths around a cap
Lens(cap) == {0, 1, cap} \cup (cap + 1)..(cap + MaxOver)

Named(prefix, i) == Str(<<prefix>> \o NatText(i))

LinkItems(n)    == List([i \in 1..n |-> Dict([text |-> Named("link", i),
                                              href |-> Named("/", i)])])
HeadingItems(n) == List([i \in 1..n |-> Dict([text |-> Named("head", i),
                                              level |-> Str(<<"h2">>)])])
ImageItems(n)   == List([i \in 1..n |->
                           ImageRecord(Origin \o Slash \o NatText(i), NatText(i % 2),
                                       10 + i, 10, <<"img-element">>)])
ColorItems(n)   == List([i \in 1..n |-> Named("#", i)])
FontItems(n)    == List([i \in 1..n |-> Named("font", i)])

\* snapshots as the extraction script and scrape_with_mcp leave them
PromptSnapshots ==
    { [url |-> Str(<<"https://", "site.test/">>), title |-> Str(<<"Shop">>),
       navigation |-> LinkItems(n), headings |-> HeadingItems(h),
       allImages |-> ImageItems(m), totalImagesFound |-> Num(m + 1),
       screenshot |-> s] :
        n \in Lens(PromptNavCap), h \in Lens(PromptHeadingCap),
        m \in Lens(PromptImageCap), s \in {Str(<<>>), Str(ScreenshotB64)} }

\* what scrape_website stores under 'screenshots' (scraper.py:189-196)
ScreenshotSets ==
    { Absent, Dict(<<>>),
      Dict([desktop |-> B64(1, 2 * KiB)]),
      Dict([desktop |-> B64(1, 2 * KiB), mobile |-> B64(2, KiB - 24)]),
      Dict([desktop |-> B64(3, 0)]) }

ScrapeResults ==
    { With([url |-> Str(<<"https://", "site.test/">>), title |-> Str(<<"Shop">>),
            html_structure |-> Dict([headings |-> HeadingItems(h),
                                     navigation |-> LinkItems(n),
                                     body_html |-> Str(<<"<body>", "x", "</body>">>)]),
            media_content |-> Dict([images |-> LinkItems(2), videos |-> List(<<>>)]),
            colors |-> ColorItems(c), fonts |-> FontItems(f)],
           "screenshots", shots) :
        n \in Lens(ClonerNavCap), h \in Lens(ClonerHeadingCap),
        c \in Lens(PromptColorCap) \cup Lens(ContextColorCap),
        f \in Lens(PromptFontCap) \cup Lens(ContextFontCap),
        shots \in ScreenshotSets }

InitPrompt ==
    /\ IdlePipeline("prompt")
    /\ page = <<>>
    /\ fin \in [by : {"create_html"}, d : PromptSnapshots]
               \cup [by : {"LLMWebsiteCloner"}, d : ScrapeResults]
    /\ fout = [stage |-> "input", context |-> <<>>, prompt |-> Dict(<<>>)]

\* main.py:725-729 and 487-545
GeneratorPrompt ==
    /\ entry = "prompt" /\ fin.by = "create_html" /\ fout.stage = "input"
    /\ fout' = [fout EXCEPT !.stage = "prompt",
                            !.prompt = create_html_prompt(safe_data_cleanup(fin.d))]
    /\ UNCHANGED <<pipelineVars, page, fin>>

\* llm_cloner.py:25
PrepareContext ==
    /\ entry = "prompt" /\ fin.by = "LLMWebsiteCloner" /\ fout.stage = "input"
    /\ fout' = [fout EXCEPT !.stage = "context", !.context = prepare_context(fin.d)]
    /\ UNCHANGED <<pipelineVars, page, fin>>

\* llm_cloner.py:29
CreateUserPrompt ==
    /\ entry = "prompt" /\ fin.by = "LLMWebsiteCloner" /\ fout.stage = "context"
    /\ fout' = [fout EXCEPT !.stage = "prompt",
                            !.prompt = create_user_prompt(fout.context)]
    /\ UNCHANGED <<pipelineVars, page, fin>>

NextPrompt == GeneratorPrompt \/ PrepareContext \/ CreateUserPrompt

SpecPrompt == InitPrompt /\ [][NextPrompt]_vars

(***************************************************************************)
(* Two calls of scrape_with_super_playwright whose awaited steps           *)
(* interleave (main.py:156-457).  Each call has its own locals: fout.req[i] *)
(* holds the position, the Playwright block, the scroll count and the      *)
(* result of call i; fout.browsers holds the state of every browser.  The  *)
(* step at which the environment makes an awaited call raise, if any, is   *)
(* part of the input of the call.                                          *)
(***************************************************************************)
Calls == {1, 2}

BrowserSteps == {"new_context", "new_page", "goto", "wait", "scroll", "screenshot",
                 "evaluate"}
FailPoints   == {"never", "enter", "launch"} \cup BrowserSteps

StepAfter == [new_context |-> "new_page", new_page |-> "goto", goto |-> "wait",
              wait |-> "scroll", scroll |-> "screenshot", screenshot |-> "evaluate",
              evaluate |-> "close"]

TargetClosed == <<"Target page, context or browser has been closed">>

\* faulty variant: every call works on one and the same browser
BrowserOf_Shared(i) == 1

\* main.py:165: browser is a local of the call, bound to the browser it launched
BrowserOf(i) == i

StartOfCall == [spc |-> "check", pw |-> "none", cycles |-> 0, out |-> <<>>]

\* main.py:455-457
CallExcept(r, b, msg) ==
    [r |-> [r EXCEPT !.spc = "returned",
                     !.pw  = IF r.pw = "entered" THEN "exited" ELSE r.pw,
                     !.out = [error |-> Str(msg)]],
     b |-> IF r.pw = "entered" THEN AsyncWithExit(b) ELSE b]

(* one awaited step of a call at r with its browser in state b: [r, b] after *)
(* the step (main.py:158-453)                                               *)
CallStep(r, b, input, available) ==
    CASE r.spc = "check" ->
            IF available THEN [r |-> [r EXCEPT !.spc = "enter"], b |-> b]
            ELSE [r |-> [r EXCEPT !.spc = "returned",
                                  !.out = [error |-> Str(<<"Playwright not available">>)]],
                  b |-> b]
      [] r.spc = "enter" ->
            IF input.failAt = "enter" THEN CallExcept(r, b, StepError("async_playwright"))
            ELSE [r |-> [r EXCEPT !.spc = "launch", !.pw = "entered"], b |-> b]
      [] r.spc = "launch" ->
            IF input.failAt = "launch" THEN CallExcept(r, b, StepError("launch"))
            ELSE [r |-> [r EXCEPT !.spc = "new_context"], b |-> "open"]
      [] r.spc \in BrowserSteps ->
            IF b # "open" THEN CallExcept(r, b, TargetClosed)
            ELSE IF input.failAt = r.spc THEN CallExcept(r, b, StepError(r.spc))
            ELSE IF r.spc = "scroll"
            THEN [r |-> [r EXCEPT !.cycles = r.cycles + 1,
                                  !.spc = IF r.cycles + 1 = ScrollCycles
                                          THEN "screenshot" ELSE "scroll"],
                  b |-> b]
            ELSE IF r.spc = "evaluate"
            THEN [r |-> [r EXCEPT !.spc = "close",
                                  !.out = VisualData(input.page) @@
                                          [screenshot |-> Str(ScreenshotB64)]],
                  b |-> b]
            ELSE [r |-> [r EXCEPT !.spc = StepAfter[r.spc]], b |-> b]
      [] r.spc = "close" ->
            [r |-> [r EXCEPT !.spc = "returned", !.pw = "exited"], b |-> "closed"]

CallInputs == [page : SamplePages, failAt : FailPoints]

InitPair ==
    /\ entry = "pair"
    /\ request = [url |-> <<>>]
    /\ env \in { e \in Envs : ~e.agent /\ ~e.apiKey }
    /\ pc = "idle" /\ spc = "idle" /\ sidx = 1 /\ cycles = 0
    /\ pw = "none" /\ browser = "none"
    /\ navLog = <<>> /\ steps = <<>> /\ scrapeOut = NoOutcome
    /\ data = <<>> /\ fallbacks = <<>> /\ agentCalls = 0 /\ modelCalls = <<>>
    /\ response = NoResponse
    /\ page = <<>>
    /\ fin \in [Calls -> CallInputs]
    /\ fout = [req |-> [i \in Calls |-> StartOfCall],
               browsers |-> [i \in Calls |-> "none"]]

\* the event loop resumes call i for one awaited step
ResumeCall(i) ==
    /\ entry = "pair" /\ fout.req[i].spc # "returned"
    /\ LET after == CallStep(fout.req[i], fout.browsers[BrowserOf(i)], fin[i],
                             env.playwright)
       IN  fout' = [req |-> [fout.req EXCEPT ![i] = after.r],
                    browsers |-> [fout.browsers EXCEPT ![BrowserOf(i)] = after.b]]
    /\ UNCHANGED <<pipelineVars, page, fin>>

NextPair == \E i \in Calls : ResumeCall(i)

SpecPair == InitPair /\ [][NextPair]_vars

(***************************************************************************)
(* The waits and the scroll loop of WebsiteScraper (scraper.py:78-149).    *)
(* page says what the document is like: react, vue, ng (the framework      *)
(* globals or marker elements are there), root (the [data-reactroot]       *)
(* element: "none", "empty" or "filled"), mounts (the application will     *)
(* give an empty root its children), images ("complete" or "pending") and  *)
(* height (the scroll height).  fout holds where the scrape is, the root   *)
(* as it is now, and the scroll loop's position and the page's scroll      *)
(* offset.                                                                 *)
(***************************************************************************)
MaxHeight       == 700
ScrollStep      == 300
ReactPoll       == 100
FrameworkDelay  == 2000
PlainDelay      == 1500
ImageWaitLimit  == 10000

LivePages ==
    [react : BOOLEAN, vue : BOOLEAN, ng : BOOLEAN, root : {"none", "empty", "filled"},
     mounts : BOOLEAN, images : {"complete", "pending"},
     height : {0, 1, ScrollStep, ScrollStep + 1, MaxHeight}]

InitLive ==
    /\ IdlePipeline("live")
    /\ page \in LivePages
    /\ fin = <<>>
    /\ fout = [pc |-> "wait_for_content", root |-> page.root, timer |-> 0,
               position |-> 0, scrollY |-> 0, imagesDone |-> FALSE]

\* scraper.py:79-98: the promise of the first evaluate
WaitForContent ==
    /\ entry = "live" /\ fout.pc = "wait_for_content"
    /\ fout' = IF page.react \/ fout.root # "none"
               THEN [fout EXCEPT !.pc = "checkReact"]
               ELSE IF page.vue \/ page.ng
               THEN [fout EXCEPT !.pc = "timer", !.timer = FrameworkDelay]
               ELSE [fout EXCEPT !.pc = "timer", !.timer = PlainDelay]
    /\ UNCHANGED <<pipelineVars, page, fin>>

\* scraper.py:83-90: resolve when the root has children, else poll again
CheckReact ==
    /\ entry = "live" /\ fout.pc = "checkReact"
    /\ fout' = IF fout.root = "filled"
               THEN [fout EXCEPT !.pc = "images"]
               ELSE [fout EXCEPT !.pc = "timer", !.timer = ReactPoll]
    /\ UNCHANGED <<pipelineVars, page, fin>>

\* the timer set by setTimeout fires
TimerFires ==
    /\ entry = "live" /\ fout.pc = "timer"
    /\ fout' = [fout EXCEPT !.pc = IF fout.timer = ReactPoll THEN "checkReact"
                                   ELSE "images",
                            !.timer = 0]
    /\ UNCHANGED <<pipelineVars, page, fin>>

\* the application renders into its root
Mounts ==
    /\ entry = "live" /\ page.mounts /\ fout.root = "empty"
    /\ fout.pc \in {"wait_for_content", "checkReact", "timer"}
    /\ fout' = [fout EXCEPT !.root = "filled"]
    /\ UNCHANGED <<pipelineVars, page, fin>>

\* scraper.py:100-108: wait_for_function with timeout=10000, its failure caught
ImagesWait ==
    /\ entry = "live" /\ fout.pc = "images"
    /\ fout' = [fout EXCEPT !.pc = "scroll",
                            !.imagesDone = (page.images = "complete"),
                            !.timer = IF page.images = "complete" THEN 0
                                      ELSE ImageWaitLimit]
    /\ UNCHANGED <<pipelineVars, page, fin>>

\* scraper.py:141-145: one turn of while (position < totalHeight)
ScrollTurn ==
    /\ entry = "live" /\ fout.pc = "scroll" /\ fout.position < page.height
    /\ fout' = [fout EXCEPT !.scrollY = fout.position,
                            !.position = fout.position + ScrollStep,
                            !.timer = 0]
    /\ UNCHANGED <<pipelineVars, page, fin>>

\* scraper.py:146-147: the loop has ended
ScrollBack ==
    /\ entry = "live" /\ fout.pc = "scroll" /\ fout.position >= page.height
    /\ fout' = [fout EXCEPT !.scrollY = 0, !.pc = "done", !.timer = 0]
    /\ UNCHANGED <<pipelineVars, page, fin>>

ScrapeSteps == WaitForContent \/ CheckReact \/ TimerFires \/ ImagesWait
               \/ ScrollTurn \/ ScrollBack

NextLive == ScrapeSteps \/ Mounts

(* the browser runs every due timer and callback, and an application that   *)
(* is going to render does render                                           *)
SpecLive == InitLive /\ [][NextLive]_vars /\ WF_vars(ScrapeSteps) /\ WF_vars(Mounts)

(***************************************************************************)
(* The extraction script applied to pages of many links and headings:      *)
(* main.py:398-424                                                         *)
(***************************************************************************)
MaxLinks == 11

LongText == [i \in 1..NavTextLimit |-> "x"]

\* the i-th <a> of the document: every fourth has no text, every fifth a long one
LinkEl(i) ==
    [el   |-> i,
     text |-> IF i % 4 = 0 THEN <<>> ELSE IF i % 5 = 0 THEN LongText
              ELSE <<"link">> \o NatText(i),
     href |-> IF i % 3 = 0 THEN <<>> ELSE Origin \o Slash \o NatText(i)]

\* the links at the given positions, in document order
LinksAt(S) == [i \in 1..Cardinality(S) |-> LinkEl(InDocumentOrder(S)[i])]

\* what 'nav a' and 'header a' match among n links: the second selector
\* matches none of them, all of them again, the even ones or the first one
NavMatchSets(n) ==
    { << LinksAt(1..n), LinksAt(S) >> :
        S \in { {}, 1..n, { i \in 1..n : i % 2 = 0 }, 1..n \cap {1} } }
    \cup { << LinksAt({ i \in 1..n : i % 2 = 0 }), LinksAt(1..n) >> }

\* the i-th of the h1, h2, h3 elements: every third has no text
HeadingEl(i) ==
    [text  |-> IF i % 3 = 0 THEN <<>> ELSE <<"head">> \o NatText(i),
     level |-> IF i = 1 THEN <<"h1">> ELSE <<"h2">>]

NavPages ==
    { [PageB(<<>>, <<>>) EXCEPT !.navMatches = m,
                                !.headingEls = [i \in 1..h |-> HeadingEl(i)]] :
        m \in UNION { NavMatchSets(n) : n \in 0..MaxLinks },
        h \in {0, HeadingCap, HeadingCap + 4, HeadingCap + 5} }

InitNav ==
    /\ IdlePipeline("script")
    /\ page \in NavPages
    /\ fin = <<>>
    /\ fout = [ran |-> FALSE, visual_data |-> <<>>]

SpecNav == InitNav /\ [][NextExtract]_vars

(***************************************************************************)
(* Properties of the request pipeline (specification Spec)                 *)
(***************************************************************************)
CloneAnswered == entry = "clone" /\ response.sent

\* every page.goto of the run failed
NavigationFailed == navLog # <<>> /\ \A i \in 1..Len(navLog) : ~navLog[i].ok

\* the primary extraction reported an error
PrimaryFailed ==
    entry = "clone" /\ scrapeOut.kind = "return" /\ "error" \in DOMAIN scrapeOut.val

(* C1: when navigation fails under every strategy, /clone answers with      *)
(* success = false, a non-empty error_message and a generated_html that     *)
(* contains "<html" and "</html>", whatever the agent and the model do.     *)
C1_NavigationFailureAnswersFailure ==
    (CloneAnswered /\ NavigationFailed) =>
        /\ ~response.success
        /\ Truthy(response.error_message)
        /\ Contains(response.generated_html, <<"<html">>)
        /\ Contains(response.generated_html, <<"</html>">>)

\* the scraper has returned or raised
ScrapeEnded == spc \in {"returned", "raised"}

(* C2: in every scrape run, of either implementation, the browser that was  *)
(* launched is no longer open when the function returns or raises, on the   *)
(* success path and on every failure path.                                  *)
C2_BrowserReleased ==
    ScrapeEnded => (browser # "open" /\ pw # "entered")

\* a run that launched a browser, failed after navigating, and has returned
C2_Witness ==
    /\ entry = "clone" /\ spc = "returned" /\ PrimaryFailed
    /\ navLog # <<>> /\ navLog[1].ok
    /\ browser = "stopped"

\* the strategies the claim names, in its order
ClaimedStrategies == << <<"networkidle", 30000>>, <<"domcontentloaded", 20000>>,
                        <<"load", 15000>> >>

\* navLog follows the three strategies in order, and nothing follows a success
FollowsClaimedStrategies ==
    /\ Len(navLog) <= Len(ClaimedStrategies)
    /\ \A i \in 1..Len(navLog) :
          /\ <<navLog[i].wait_until, navLog[i].timeout>> = ClaimedStrategies[i]
          /\ navLog[i].ok => i = Len(navLog)

(* C3, as stated: every navigation attempts exactly the three strategies     *)
(* networkidle/30s, domcontentloaded/20s, load/15s in order, each at most    *)
(* once, stops at the first success, and fails only when all three failed.   *)
C3_Original ==
    /\ FollowsClaimedStrategies
    /\ (ScrapeEnded /\ NavigationFailed) => Len(navLog) = Len(ClaimedStrategies)

(* C3, amended: _smart_navigation of WebsiteScraper attempts the three       *)
(* strategies in order, each at most once, stops at the first success and    *)
(* raises only when all three failed, with the third error;                  *)
(* scrape_with_super_playwright makes one attempt, domcontentloaded/60s, and *)
(* returns its failure as an error result.                                   *)
C3_Navigation ==
    /\ entry = "scrape_website" =>
          /\ FollowsClaimedStrategies
          /\ spc = "nav" => \A i \in 1..Len(navLog) : ~navLog[i].ok
          /\ (NavigationFailed /\ scrapeOut.kind \in {"raising", "raise"}) =>
                /\ Len(navLog) = 3
                /\ scrapeOut.val = <<"goto failed under ", "load">>
          /\ (NavigationFailed /\ Len(navLog) = 3) =>
                scrapeOut.kind \in {"raising", "raise"}
          /\ (NavigationFailed /\ Len(navLog) < 3) => spc = "nav"
    /\ entry = "clone" =>
          /\ Len(navLog) <= 1
          /\ \A i \in 1..Len(navLog) :
                <<navLog[i].wait_until, navLog[i].timeout>> = <<"domcontentloaded", 60000>>
          /\ NavigationFailed => PrimaryFailed

\* all three strategies were tried and the run has raised the third error
C3_Witness ==
    /\ entry = "scrape_website" /\ spc = "raised"
    /\ Len(navLog) = 3 /\ NavigationFailed
    /\ scrapeOut.val = <<"goto failed under ", "load">>

\* the rank of a step in the order the claim gives
StepRank(step) ==
    CASE step = "navigate"   -> 1
      [] step = "wait"       -> 2
      [] step = "overlay"    -> 3
      [] step = "scroll"     -> 4
      [] step = "extract"    -> 5
      [] step = "screenshot" -> 6

ScrapeSucceeded == spc = "returned" /\ ~PrimaryFailed

(* C4, as stated: in every scrape run the steps happen in the order          *)
(* navigate, wait, dismiss-overlay, scroll, extract, screenshot; none is     *)
(* skipped on the success path and the screenshot follows the extraction.    *)
C4_Original ==
    /\ \A i \in 1..Len(steps) : \A j \in i..Len(steps) :
          StepRank(steps[i]) <= StepRank(steps[j])
    /\ ScrapeSucceeded => { StepRank(steps[i]) : i \in 1..Len(steps) } = 1..6

\* the order of scrape_website and of scrape_with_super_playwright
WebsiteOrder ==
    <<"navigate", "wait", "overlay", "scroll", "extract", "extract", "extract",
      "screenshot", "extract", "extract", "extract", "extract", "extract",
      "extract", "extract", "extract", "extract", "extract", "extract">>
SuperOrder == <<"navigate", "wait", "scroll", "screenshot", "extract">>

IsPrefix(s, t) == Len(s) <= Len(t) /\ \A i \in 1..Len(s) : s[i] = t[i]

(* C4, amended: the steps of a scrape run happen one after another in a      *)
(* fixed order and none is skipped on the success path.  scrape_website:     *)
(* navigate, wait, dismiss-overlay, scroll, page content, title and          *)
(* metadata, screenshots, then the other extraction steps.                   *)
(* scrape_with_super_playwright: navigate, wait, scroll, screenshot,         *)
(* extract; it has no dismiss-overlay step and takes the screenshot before   *)
(* the extraction.                                                           *)
C4_StepOrder ==
    /\ entry = "scrape_website" =>
          /\ IsPrefix(steps, WebsiteOrder)
          /\ ScrapeSucceeded => steps = WebsiteOrder
    /\ entry = "clone" =>
          /\ IsPrefix(steps, SuperOrder)
          /\ ScrapeSucceeded => steps = SuperOrder

\* a scrape_website run that succeeded
C4_Witness == entry = "scrape_website" /\ ScrapeSucceeded /\ Len(steps) = 19

\* the model call did not return a message with text
ModelFailed == modelCalls # <<>> /\ modelCalls[Len(modelCalls)] # "text"

(* C5: /clone always answers; any failure of the top-level scrape or of the  *)
(* model call (a missing key and a malformed response included) gives        *)
(* success = false with the failure text as error_message and the error      *)
(* page as generated_html; success = true only when the model call returned  *)
(* a response.                                                               *)
C5_FailureAnswersFailure ==
    /\ (entry = "clone" /\ pc = "done") => response.sent
    /\ CloneAnswered =>
          /\ (PrimaryFailed \/ ~env.apiKey \/ ModelFailed) =>
                /\ ~response.success
                /\ Truthy(response.error_message)
                /\ response.generated_html =
                      ErrorHtml(response.error_message.v, request.url, env)
          /\ response.success =>
                (modelCalls # <<>> /\ modelCalls[Len(modelCalls)] = "text")

\* the keys of the two fallback structures
FallbackKeys == {"url", "siteType", "backgroundColor", "textColor", "fontFamily",
                 "title", "navigation", "headings", "logo", "isDark", "hasSearch",
                 "hasVideo", "allImages", "totalImagesFound"}

FallbackUse ==
    /\ Len(fallbacks) <= 1
    /\ fallbacks # <<>> => PrimaryFailed
    /\ (CloneAnswered /\ ~PrimaryFailed) =>
          (fallbacks = <<>> /\ data = safe_data_cleanup(scrapeOut.val))
    /\ \A i \in 1..Len(fallbacks) :
          /\ DOMAIN fallbacks[i] \in {FallbackKeys, FallbackKeys \cup {"mcp_data"}}
          /\ CloneAnswered => data = safe_data_cleanup(fallbacks[i])

(* C6, as stated: a fallback is used at most once and only after the primary *)
(* extraction reported an error; primary data reaches the generator          *)
(* unreplaced; when the primary extraction fails exactly one fallback        *)
(* structure replaces its result.                                            *)
C6_Original ==
    /\ FallbackUse
    /\ (CloneAnswered /\ PrimaryFailed) => Len(fallbacks) = 1

(* C6, amended: as stated, except that a failed primary extraction is        *)
(* replaced by exactly one fallback structure only when the backup agent is  *)
(* available; without the agent no fallback is substituted and the error     *)
(* result itself goes to safe_data_cleanup.                                  *)
C6_FallbackAtMostOnce ==
    /\ FallbackUse
    /\ (CloneAnswered /\ PrimaryFailed /\ env.agent) => Len(fallbacks) = 1
    /\ (CloneAnswered /\ PrimaryFailed /\ ~env.agent) =>
          (fallbacks = <<>> /\ data = safe_data_cleanup(
                [error |-> Str(<<"Super Playwright failed: ">> \o
                               PyStr(scrapeOut.val["error"]))]))

\* the agent failed too and the minimal structure replaced the error result
C6_Witness ==
    /\ CloneAnswered /\ PrimaryFailed /\ env.agent
    /\ Len(fallbacks) = 1 /\ "mcp_data" \notin DOMAIN fallbacks[1]

(***************************************************************************)
(* Properties of the URL helpers (specification SpecUrl)                   *)
(***************************************************************************)
HttpScheme  == <<"h","t","t","p",":","/","/">>
HttpsScheme == <<"h","t","t","p","s",":","/","/">>

\* the rules as the claim states them
ClaimedResolve(u, o) ==
    IF StartsWith(u, HttpScheme) \/ StartsWith(u, HttpsScheme) THEN u
    ELSE IF StartsWith(u, <<"d","a","t","a",":">>) THEN u
    ELSE IF StartsWith(u, <<"/","/">>) THEN <<"h","t","t","p","s",":">> \o u
    ELSE IF StartsWith(u, <<"/">>) THEN o \o u
    ELSE o \o <<"/">> \o u

(* C7: for every non-empty u and origin o, resolveUrl returns u unchanged    *)
(* when u starts with http:// or https:// or with data:, "https:" + u when   *)
(* u starts with "//", o + u when u starts with one "/", and o + "/" + u     *)
(* for every other u.                                                        *)
C7_ResolveRules ==
    fout.resolved # <<>> => fout.resolved[1] = ClaimedResolve(fin.src, fin.origin)

(* C8: resolveUrl applied to its own result, under the same origin, returns  *)
(* that result.                                                              *)
C8_ResolveIdempotent ==
    Len(fout.resolved) = 2 => fout.resolved[2] = fout.resolved[1]

\* a relative source was resolved, and its result resolved once more
C8_Witness ==
    /\ Len(fout.resolved) = 2
    /\ fout.resolved[1] # fin.src
    /\ ~StartsWith(fin.src, <<"/">>)

\* the characters of a MIME subtype
IsSubtypeChar(c) == IsAlnum(c) \/ c \in {"+", ".", "-", "_"}

RECURSIVE SubtypeEnd(_, _)
SubtypeEnd(s, i) ==
    IF i <= Len(s) /\ IsSubtypeChar(s[i]) THEN SubtypeEnd(s, i + 1) ELSE i

\* the text before the first "?"
WithoutQuery(s) ==
    IF \E i \in 1..Len(s) : s[i] = "?"
    THEN SubSeq(s, 1, (CHOOSE i \in 1..Len(s) :
                          s[i] = "?" /\ \A j \in 1..(i - 1) : s[j] # "?") - 1)
    ELSE s

\* the format as the claim states it
ClaimedFormat(src) ==
    IF StartsWith(src, <<"d","a","t","a",":">>)
    THEN LET from == Len(<<"d","a","t","a",":","i","m","a","g","e","/">>) + 1 IN
         IF StartsWith(src, <<"d","a","t","a",":","i","m","a","g","e","/">>)
               /\ from <= Len(src) /\ IsAlnum(src[from])
         THEN SubSeq(src, from, SubtypeEnd(src, from) - 1)
         ELSE <<"u","n","k","n","o","w","n">>
    ELSE LET path == WithoutQuery(src)
             dots == { i \in 1..Len(path) : path[i] = "." } IN
         IF dots = {} THEN <<"u","n","k","n","o","w","n">>
         ELSE LET last == CHOOSE i \in dots : \A j \in dots : j <= i
                  ext  == SubSeq(path, last + 1, Len(path)) IN
              IF ext # <<>> /\ \A i \in 1..Len(ext) : IsAlnum(ext[i])
              THEN toLowerCase(ext)
              ELSE <<"u","n","k","n","o","w","n">>

(* C9: getImageFormat returns, for a data-URI, the whole MIME subtype that   *)
(* follows "image/"; for any other URL, the lower-cased text after the last  *)
(* "." of the URL without its query string; and "unknown" when neither       *)
(* applies.                                                                  *)
C9_FormatRules ==
    fout.format # NotComputed => fout.format = ClaimedFormat(fout.resolved[1])

(***************************************************************************)
(* Properties of the extraction script (specification SpecExtract)         *)
(***************************************************************************)
\* every candidate of a page, with its place in the discovery order:
\* element candidates by selector and document position, then the
\* background references by document position and place in the value
ElementCandidates(pg) ==
    { [place |-> <<1, k, pos, 0>>, url |-> resolveUrl(c.src, pg.origin), alt |-> c.alt,
       width |-> c.width, height |-> c.height, context |-> c.context] :
        <<k, pos, c>> \in
            { <<k, pos, ElementCandidate(pg.doc[pos])>> :
                <<k, pos>> \in { x \in (1..Len(pg.selectors)) \X (1..Len(pg.doc)) :
                                    /\ ~pg.selectors[x[1]].throws
                                    /\ x[2] \in pg.selectors[x[1]].els } } }

BackgroundCandidates(pg) ==
    { [place |-> <<2, 0, x[1], x[2]>>, url |-> resolveUrl(pg.doc[x[1]].bg[x[2]], pg.origin),
       alt |-> <<"background-image">>, width |-> pg.doc[x[1]].ow,
       height |-> pg.doc[x[1]].oh, context |-> <<"css-background">>] :
        x \in { y \in (1..Len(pg.doc)) \X (1..2) : y[2] <= Len(pg.doc[y[1]].bg) } }

Before(a, b) ==
    \E i \in 1..4 : a[i] < b[i] /\ \A j \in 1..(i - 1) : a[j] = b[j]

FirstDiscovered(cands, url) ==
    CHOOSE c \in cands : c.url = url /\ \A d \in cands :
        (d.url = url /\ d.place # c.place) => Before(c.place, d.place)

(* C10: after one extraction pass no two images of the list have the same    *)
(* resolved src, every resolved URL of a candidate is in the list, and each  *)
(* image has the alt, width, height and context of the candidate discovered  *)
(* first for its URL (selector order, then element order, element           *)
(* candidates before CSS-background candidates).                            *)
C10_FirstOccurrenceWins ==
    fout.ran =>
        LET imgs  == fout.visual_data.allImages.v
            cands == { c \in ElementCandidates(page) \cup BackgroundCandidates(page) :
                          Len(c.url) > 0 }
        IN  /\ \A i, j \in 1..Len(imgs) : imgs[i].src = imgs[j].src => i = j
            /\ { imgs[i].src : i \in 1..Len(imgs) } = { c.url : c \in cands }
            /\ \A i \in 1..Len(imgs) :
                  LET f == FirstDiscovered(cands, imgs[i].src) IN
                  /\ imgs[i].alt = f.alt
                  /\ imgs[i].width = f.width /\ imgs[i].height = f.height
                  /\ imgs[i].context = f.context

\* an element and a later background gave the same URL with other metadata
C10_Witness ==
    /\ fout.ran
    /\ \E c \in ElementCandidates(page) : \E d \in BackgroundCandidates(page) :
          /\ Len(c.url) > 0 /\ c.url = d.url
          /\ c.width # d.width
          /\ \E i \in 1..Len(fout.visual_data.allImages.v) :
                /\ fout.visual_data.allImages.v[i].src = c.url
                /\ fout.visual_data.allImages.v[i].context # <<"css-background">>

(***************************************************************************)
(* Properties of the sort and the cap (specification SpecRank)             *)
(***************************************************************************)
\* the place of every discovered URL in the order of discovery
DiscoveryPlace(pg) ==
    LET disc == Discovered(pg) IN
    [u \in { disc[k].src : k \in 1..Len(disc) } |->
        CHOOSE k \in 1..Len(disc) : disc[k].src = u]

(* C11: the returned image list is ordered by non-increasing width*height,  *)
(* and two images of equal area appear in their order of discovery.         *)
C11_StableSortByArea ==
    fout.ran =>
        LET imgs  == fout.visual_data.allImages.v
            place == DiscoveryPlace(page)
        IN  \A i \in 1..Len(imgs) : \A j \in (i + 1)..Len(imgs) :
              /\ imgs[i].width * imgs[i].height >= imgs[j].width * imgs[j].height
              /\ imgs[i].width * imgs[i].height = imgs[j].width * imgs[j].height
                    => place[imgs[i].src] < place[imgs[j].src]

\* two images of equal area were returned, the later discovered after a
\* larger image that was discovered between them
C11_Witness ==
    /\ fout.ran
    /\ LET imgs  == fout.visual_data.allImages.v
           place == DiscoveryPlace(page)
       IN  \E i, j, k \in 1..Len(imgs) :
             /\ i < j /\ j < k
             /\ imgs[j].width * imgs[j].height = imgs[k].width * imgs[k].height
             /\ imgs[i].width * imgs[i].height > imgs[j].width * imgs[j].height
             /\ place[imgs[j].src] < place[imgs[i].src]
             /\ place[imgs[i].src] < place[imgs[k].src]

(* C12: totalImagesFound is the number of distinct candidates before the    *)
(* cap, and the returned list is the first min(100, totalImagesFound)       *)
(* candidates of the ranked order: it has that length, holds discovered     *)
(* images only, and every discovered image left out ranks after every       *)
(* image returned.                                                          *)
C12_CapAndTotal ==
    fout.ran =>
        LET imgs  == fout.visual_data.allImages.v
            total == fout.visual_data.totalImagesFound.v
            disc  == Discovered(page)
            place == DiscoveryPlace(page)
            urls  == { c.url : c \in ElementCandidates(page) \cup
                                     BackgroundCandidates(page) } \ {<<>>}
            kept  == { imgs[i].src : i \in 1..Len(imgs) }
        IN  /\ total = Cardinality(urls)
            /\ Len(imgs) = IF total < 100 THEN total ELSE 100
            /\ Len(imgs) <= 100 /\ Len(imgs) <= total
            /\ \A i \in 1..Len(imgs) :
                  imgs[i].src \in urls /\ imgs[i] = disc[place[imgs[i].src]]
            /\ \A u \in urls \ kept : \A i \in 1..Len(imgs) :
                  LET a == imgs[i].width * imgs[i].height
                      b == disc[place[u]].width * disc[place[u]].height
                  IN  a > b \/ (a = b /\ place[imgs[i].src] < place[u])

\* more images were found than the list may hold
C12_Witness ==
    /\ fout.ran
    /\ fout.visual_data.totalImagesFound.v > 100
    /\ Len(fout.visual_data.allImages.v) = 100

(***************************************************************************)
(* Properties of /extract-images (specification SpecImages)                *)
(***************************************************************************)
ImagesAnswered == entry = "extract_images" /\ response.sent

\* the candidates the scrape handed to the handler
Candidates == scrapeOut.val.allImages.v

\* the filter as the claim states it, for integer minima
ClaimedKeep(img) ==
    /\ img.width >= request.min_width.v
    /\ img.height >= request.min_height.v
    /\ \/ request.include_small = [t |-> "bool", v |-> TRUE]
       \/ img.width >= 100 /\ img.height >= 100

\* the candidates that the claimed filter keeps, in rank order
ClaimedFiltered ==
    LET keptAt == { i \in 1..Len(Candidates) : ClaimedKeep(Candidates[i]) }
    IN  [r \in 1..Cardinality(keptAt) |->
            Candidates[CHOOSE i \in keptAt :
                          Cardinality({ j \in keptAt : j < i }) = r - 1]]

IntegerMinima == request.min_width.t = "int" /\ request.min_height.t = "int"

(* C13: for integer min_width and min_height, /extract-images keeps a       *)
(* candidate if and only if width >= min_width and height >= min_height and *)
(* (include_small is true or (width >= 100 and height >= 100)); the kept    *)
(* candidates stay in rank order.                                           *)
C13_FilterRule ==
    (ImagesAnswered /\ response.success /\ IntegerMinima) =>
        /\ fout.filtered
        /\ Len(fout.filtered_images) = Len(ClaimedFiltered)
        /\ \A i \in 1..Len(ClaimedFiltered) :
              /\ fout.filtered_images[i].src = ClaimedFiltered[i].src
              /\ fout.filtered_images[i].width = ClaimedFiltered[i].width
              /\ fout.filtered_images[i].height = ClaimedFiltered[i].height

\* an 80x80 candidate kept with min_width 10 and include_small true, while
\* the 9x200 candidate was dropped
C13_Witness ==
    /\ ImagesAnswered /\ response.success
    /\ request.min_width = [t |-> "int", v |-> 10]
    /\ request.min_height = [t |-> "int", v |-> 10]
    /\ request.include_small = [t |-> "bool", v |-> TRUE]
    /\ \E i \in 1..Len(fout.filtered_images) :
          fout.filtered_images[i].width = 80 /\ fout.filtered_images[i].height = 80
    /\ \E i \in 1..Len(Candidates) : Candidates[i].width = 9
    /\ \A i \in 1..Len(fout.filtered_images) : fout.filtered_images[i].width # 9

(* C14: for every integer image_limit the request model accepts, the        *)
(* response holds the first image_limit filtered candidates and nothing     *)
(* else: a prefix of the filtered list of length min(image_limit, number of *)
(* filtered candidates), and no image at all for a limit below one.         *)
C14_LimitIsPrefix ==
    (ImagesAnswered /\ response.success /\ request.image_limit.t = "int") =>
        LET n == Len(fout.filtered_images)
            k == request.image_limit.v
        IN  /\ Len(response.images) = IF k < 0 THEN 0 ELSE IF k < n THEN k ELSE n
            /\ \A i \in 1..Len(response.images) :
                  i <= n /\ response.images[i] = fout.filtered_images[i]

(***************************************************************************)
(* Properties of safe_data_cleanup (specification SpecCleanup)             *)
(***************************************************************************)
Cleaned == entry = "cleanup" /\ fout.stage \in {"cleaned", "prompted"}

CleanupEnded == entry = "cleanup" /\ fout.stage # "input"

\* the value under a key of the input, Absent when the key is missing
Given(k) == IF k \in DOMAIN fin.d THEN fin.d[k] ELSE Absent

\* an entry that yields a non-empty text: a dict with one, or a non-empty string
YieldsText(it) ==
    \/ it.t = "str" /\ it.v # <<>>
    \/ it.t = "dict" /\ "text" \in DOMAIN it.v
       /\ it.v["text"].t = "str" /\ it.v["text"].v # <<>>

TextOf(it) == IF it.t = "str" THEN it ELSE it.v["text"]

ValidTexts(x) ==
    LET valid == SelectSeq(x.v, YieldsText) IN [i \in 1..Len(valid) |-> TextOf(valid[i])]

TextsOf(entries) == [i \in 1..Len(entries) |-> entries[i].v["text"]]

ListOrAbsent(x) == x = Absent \/ x.t = "list"

HomeAbout == << Dict([text |-> Str(<<"Home">>),  href |-> Str(<<"#">>)]),
                Dict([text |-> Str(<<"About">>), href |-> Str(<<"#">>)]) >>

(* C15: whenever safe_data_cleanup returns for an input with no navigation, an *)
(* empty navigation list, or a navigation list none of whose entries yields  *)
(* a non-empty text, the output navigation is exactly Home and About with    *)
(* href '#'; otherwise the output navigation is non-empty and holds the      *)
(* valid entries in input order.                                             *)
C15_NavigationRule ==
    (Cleaned /\ ListOrAbsent(Given("navigation"))) =>
           LET out == fout.safe_data.navigation.v
               nav == Given("navigation")
           IN  IF nav = Absent \/ ValidTexts(nav) = <<>>
               THEN out = HomeAbout
               ELSE out # <<>> /\ TextsOf(out) = ValidTexts(nav)

WelcomeHeading == << Dict([text |-> Str(<<"Welcome">>), level |-> Str(<<"h1">>)]) >>

\* the level an entry asks for, 'h1' when it names none
LevelOf(it) ==
    IF it.t = "dict" /\ "level" \in DOMAIN it.v THEN it.v["level"] ELSE Str(<<"h1">>)

ValidHeadings(x) ==
    LET valid == SelectSeq(x.v, YieldsText)
    IN  [i \in 1..Len(valid) |->
            Dict([text |-> TextOf(valid[i]), level |-> LevelOf(valid[i])])]

(* C16: whenever safe_data_cleanup returns for an input whose headings are    *)
(* missing, an empty list, or a list with no entry holding a non-empty string *)
(* text, the output headings are exactly one Welcome heading of level h1;     *)
(* otherwise the output headings are non-empty and are the valid entries in   *)
(* input order, each with its level or h1 when it names none.                 *)
C16_HeadingsRule ==
    (Cleaned /\ ListOrAbsent(Given("headings"))) =>
           LET out == fout.safe_data.headings.v
               hs  == Given("headings")
           IN  IF hs = Absent \/ ValidHeadings(hs) = <<>>
               THEN out = WelcomeHeading
               ELSE out # <<>> /\ out = ValidHeadings(hs)

\* a logo value is missing under key k: no such key, null, or the empty string
Lacks(l, k) == k \notin DOMAIN l.v \/ l.v[k] \in {None, Str(<<>>)}

\* the input logo is missing, not a dict, of an unknown type, or lacks its value
InvalidLogo(l) ==
    \/ l = Absent
    \/ l.t # "dict"
    \/ "type" \notin DOMAIN l.v
    \/ l.v["type"] \notin {Str(<<"text">>), Str(<<"image">>)}
    \/ l.v["type"] = Str(<<"text">>) /\ Lacks(l, "text")
    \/ l.v["type"] = Str(<<"image">>) /\ Lacks(l, "src")

IsLogo(l) ==
    /\ l.t = "dict" /\ "type" \in DOMAIN l.v
    /\ \/ l.v["type"] = Str(<<"text">>) /\ "text" \in DOMAIN l.v
       \/ l.v["type"] = Str(<<"image">>) /\ "src" \in DOMAIN l.v

(* C17: whenever safe_data_cleanup returns, its output has a logo of type     *)
(* text or image; and when the input logo is missing, not a dict, of an       *)
(* unknown type, or lacks its text or src value, the output logo is the text  *)
(* logo whose text is the title of the same output, which is a string.        *)
C17_LogoRule ==
    Cleaned =>
        /\ "logo" \in DOMAIN fout.safe_data
        /\ IsLogo(fout.safe_data.logo)
        /\ InvalidLogo(Given("logo")) =>
             /\ fout.safe_data.title.t = "str"
             /\ fout.safe_data.logo =
                  Dict([type |-> Str(<<"text">>), text |-> fout.safe_data.title])

\* a logo of an unknown type beside a title that is not a string
C17_Witness ==
    /\ Cleaned
    /\ Given("logo") = Dict([type |-> Str(<<"video">>), src |-> Str(<<"l.p">>),
                             text |-> Str(<<"Brand">>)])
    /\ Given("title") = Num(5)
    /\ fout.safe_data.logo = Dict([type |-> Str(<<"text">>), text |-> Str(<<"5">>)])

\* the documented literal defaults of the scalar text fields
DocumentedText ==
    [url             |-> <<>>,
     siteType        |-> <<"standard">>,
     backgroundColor |-> <<"#", "f", "f", "f", "f", "f", "f">>,
     textColor       |-> <<"#", "3", "3", "3", "3", "3", "3">>,
     fontFamily      |-> <<"system-ui, sans-serif">>,
     title           |-> <<"Website">>,
     screenshot      |-> <<>>]

FlagFields == {"isDark", "hasSearch", "hasVideo"}

NotA(x, type) == x = Absent \/ x.t # type

(* C18: whenever safe_data_cleanup returns, every scalar text field that is   *)
(* absent from the input or holds a value that is not a string is output as   *)
(* its documented default, and every flag that is absent or not a boolean is  *)
(* output as false.                                                           *)
C18_DefaultsForWrongTypes ==
    Cleaned =>
        /\ \A k \in DOMAIN DocumentedText :
              NotA(Given(k), "str") => fout.safe_data[k] = Str(DocumentedText[k])
        /\ \A k \in FlagFields :
              NotA(Given(k), "bool") => fout.safe_data[k] = Bool(FALSE)

IsText(x) == x.t = "str"

\* a list of dicts holding a string text and a string under key
EntriesOf(x, key) ==
    /\ x.t = "list"
    /\ \A i \in 1..Len(x.v) :
          /\ x.v[i].t = "dict"
          /\ {"text", key} \subseteq DOMAIN x.v[i].v
          /\ IsText(x.v[i].v["text"]) /\ IsText(x.v[i].v[key])

\* a list of image records
ImagesOf(x) ==
    /\ x.t = "list"
    /\ \A i \in 1..Len(x.v) :
          {"src", "alt", "width", "height", "context"} \subseteq DOMAIN x.v[i]

WellTyped(d) ==
    /\ \A k \in DOMAIN DocumentedText : k \in DOMAIN d /\ IsText(d[k])
    /\ \A k \in FlagFields : k \in DOMAIN d /\ d[k].t = "bool"
    /\ ImagesOf(d.allImages)
    /\ d.totalImagesFound.t = "int"
    /\ EntriesOf(d.navigation, "href")
    /\ EntriesOf(d.headings, "level")

TypeFailure == <<"TypeError or AttributeError">>

(* C19: for every input dict, safe_data_cleanup returns an output that is     *)
(* well-typed in every field (strings for the scalar text fields, booleans    *)
(* for the flags, a list of image records for allImages, an integer for       *)
(* totalImagesFound, lists of dicts of strings for navigation and headings),  *)
(* and create_html given that output does not fail on a type error.           *)
C19_OutputWellTyped ==
    CleanupEnded =>
        /\ fout.stage # "raised"
        /\ WellTyped(fout.safe_data)
        /\ fout.stage = "prompted" => fout.failure # TypeFailure

(***************************************************************************)
(* Properties of the returned document (specification SpecHtml)            *)
(***************************************************************************)
StartsWithDoctype(html) == Len(html) > 0 /\ html[1] = "<!DOCTYPE"

HasHtmlTag(html) == \E i \in 1..Len(html) : html[i] = "<html"

(* C20: for every model response text, the document returned by              *)
(* LLMWebsiteCloner (extraction, then post-processing) and the document      *)
(* returned by HTMLGenerator.create_html start with a DOCTYPE declaration    *)
(* and contain an <html> tag.                                                *)
C20_DoctypeAndHtmlTag ==
    (entry = "html" /\ fout.by # "none") =>
        StartsWithDoctype(fout.html) /\ HasHtmlTag(fout.html)

\* the content of the fenced block without surrounding blank space and without
\* what follows its last closing </html>
BlockContent ==
    LET content == Strip(fin.block) IN
    IF \E i \in 1..Len(content) : content[i] = "</html>"
    THEN SubSeq(content, 1, CHOOSE i \in 1..Len(content) :
                    content[i] = "</html>"
                    /\ \A j \in (i + 1)..Len(content) : content[j] # "</html>")
    ELSE content

WithDoctype(html) == IF StartsWithDoctype(html) THEN html
                     ELSE <<"<!DOCTYPE", " html>", "\n">> \o html

(* C21: for a model response made of leading prose, a fenced html block and  *)
(* trailing prose, with or without the closing fence, the document extracted *)
(* by LLMWebsiteCloner is exactly the content of the block up to its last    *)
(* closing </html>, the document returned by create_html is that content     *)
(* with a DOCTYPE put before it when it lacked one, and both returned        *)
(* documents start with a DOCTYPE.                                           *)
C21_FencedBlockExtracted ==
    (entry = "html" /\ fout.by # "none" /\ fin.fenced) =>
        /\ fout.by = "LLMWebsiteCloner" => fout.extracted = BlockContent
        /\ fout.by = "create_html" => fout.html = WithDoctype(BlockContent)
        /\ StartsWithDoctype(fout.html)

(***************************************************************************)
(* Properties of what the model is given (specification SpecPrompt)        *)
(***************************************************************************)
PromptStarted == entry = "prompt" /\ fout.stage # "input"

\* the value is the payload or has it somewhere inside
RECURSIVE HoldsPayload(_, _)
HoldsPayload(x, p) ==
    \/ x.t = p.t /\ x.v = p.v
    \/ x.t = "str" /\ p.t = "str" /\ Contains(x.v, p.v)
    \/ x.t = "list" /\ \E i \in 1..Len(x.v) : HoldsPayload(x.v[i], p)
    \/ x.t = "dict" /\ \E k \in DOMAIN x.v : HoldsPayload(x.v[k], p)

\* the devices of the scrape that have a screenshot
ShotDevices ==
    IF fin.by = "LLMWebsiteCloner" /\ "screenshots" \in DOMAIN fin.d
    THEN DOMAIN fin.d["screenshots"].v ELSE {}

\* the screenshot strings of the input that are not empty
ScreenshotPayloads ==
    IF fin.by = "create_html"
    THEN { fin.d["screenshot"] } \ { Str(<<>>) }
    ELSE { s \in { fin.d["screenshots"].v[dev] : dev \in ShotDevices } : s.v[2] > 0 }

PresenceAndSize(shot) ==
    Dict([has_screenshot |-> Bool(TRUE), size_kb |-> Num(shot.v[2] \div 1024)])

(* C22: no screenshot string of the input appears in any field of the        *)
(* prepared context or of the prompt; each screenshot of a scrape is          *)
(* described in the context by a presence flag and its size in KiB only,      *)
(* and the prompt of create_html only says whether a screenshot was taken.    *)
C22_NoScreenshotPayload ==
    PromptStarted =>
        /\ \A p \in ScreenshotPayloads :
              ~HoldsPayload(Dict(fout.context), p) /\ ~HoldsPayload(fout.prompt, p)
        /\ fin.by = "LLMWebsiteCloner" =>
              /\ DOMAIN fout.context["screenshots_info"].v = ShotDevices
              /\ \A dev \in ShotDevices :
                    fout.context["screenshots_info"].v[dev]
                        = PresenceAndSize(fin.d["screenshots"].v[dev])
        /\ fin.by = "create_html" =>
              fout.prompt.v["screenshot_captured"] = Bool(fin.d["screenshot"] # Str(<<>>))

\* a scrape with two screenshots has gone through the context into the prompt
C22_Witness ==
    /\ entry = "prompt" /\ fin.by = "LLMWebsiteCloner" /\ fout.stage = "prompt"
    /\ ShotDevices = {"desktop", "mobile"}
    /\ fout.context["screenshots_info"].v["desktop"].v["size_kb"] = Num(2)
    /\ fout.context["screenshots_info"].v["mobile"].v["size_kb"] = Num(0)

PromptBuilt == entry = "prompt" /\ fout.stage = "prompt"

\* the full list behind a field of the prompt
FullList(field) ==
    IF fin.by = "create_html"
    THEN \* the lists of the cleaned snapshot that create_html is given
         CASE field = "navigation" -> safe_data_cleanup(fin.d)["navigation"].v
           [] field = "headings"   -> safe_data_cleanup(fin.d)["headings"].v
           [] field = "images"     -> safe_data_cleanup(fin.d)["allImages"].v
    ELSE CASE field = "navigation" -> fin.d["html_structure"].v["navigation"].v
           [] field = "headings"   -> fin.d["html_structure"].v["headings"].v
           [] field = "colors"     -> fin.d["colors"].v
           [] field = "fonts"      -> fin.d["fonts"].v

CappedFields ==
    IF fin.by = "create_html" THEN {"navigation", "headings", "images"}
    ELSE {"navigation", "headings", "colors", "fonts"}

\* the note of the prompt about omitted items of a field, None when it has none
OmittedNote(field) ==
    IF ("more_" \o field) \in DOMAIN fout.prompt.v
    THEN fout.prompt.v["more_" \o field] ELSE None

(* C23: every list-valued field of the prompt (colors, fonts, navigation,    *)
(* headings, images) holds no more items than a fixed cap allows, and the    *)
(* prompt has a note giving the number of omitted items, full length minus   *)
(* the length shown, exactly when the full list is longer than what is shown.*)
C23_CapsAndNotes ==
    PromptBuilt =>
        \A field \in CappedFields :
            LET full  == Len(FullList(field))
                shown == Len(fout.prompt.v[field].v)
            IN  /\ shown <= full
                /\ shown <= 20
                /\ OmittedNote(field) = IF full > shown THEN Num(full - shown) ELSE None

(***************************************************************************)
(* Failures inside the extraction script (specification SpecExtract)       *)
(***************************************************************************)
\* the step of the element that can throw has thrown
StepThrows(el) == el.tagName \in {"SVG", "CANVAS"} /\ el.throws

\* selector k was queried without error and matched the element at pos, whose
\* own step did not throw
Worked(pg, k, pos) ==
    /\ ~pg.selectors[k].throws
    /\ pos \in pg.selectors[k].els
    /\ ~StepThrows(pg.doc[pos])

ReturnedUrls == { fout.visual_data.allImages.v[i].src :
                    i \in 1..Len(fout.visual_data.allImages.v) }

(* C24: a selector whose query throws and an element whose SVG or canvas     *)
(* step throws are skipped without ending the extraction: the script still   *)
(* returns a snapshot, and the snapshot holds the URL of every candidate of  *)
(* every other selector and element, those after a failing element in the    *)
(* same selector included, and of every background reference.                *)
C24_FailuresAreSkipped ==
    fout.ran =>
        /\ "allImages" \in DOMAIN fout.visual_data
        /\ \A k \in 1..Len(page.selectors) : \A pos \in 1..Len(page.doc) :
              Worked(page, k, pos) =>
                 LET c   == ElementCandidate(page.doc[pos])
                     url == resolveUrl(c.src, page.origin)
                 IN  (Len(c.src) > 0 /\ Len(url) > 0) => url \in ReturnedUrls
        /\ \A c \in BackgroundCandidates(page) : Len(c.url) > 0 => c.url \in ReturnedUrls

\* a selector that threw came first; the next one matched an element whose
\* step threw and a later element that no background names, which is returned
C24_Witness ==
    /\ fout.ran
    /\ Len(page.selectors) = 2
    /\ page.selectors[1].throws
    /\ \E p, q \in page.selectors[2].els :
          /\ p < q
          /\ StepThrows(page.doc[p])
          /\ page.doc[q].tagName = "SOURCE"
          /\ resolveUrl(page.doc[q].src, page.origin) \in ReturnedUrls
          /\ \A c \in BackgroundCandidates(page) :
                c.url # resolveUrl(page.doc[q].src, page.origin)

(***************************************************************************)
(* Properties of two interleaved scrapes (specification SpecPair)          *)
(***************************************************************************)
\* the call run from its start to its return with nothing else running
RECURSIVE RunAlone(_, _, _, _)
RunAlone(r, b, input, available) ==
    IF r.spc = "returned" THEN [r |-> r, b |-> b]
    ELSE LET after == CallStep(r, b, input, available)
         IN  RunAlone(after.r, after.b, input, available)

Alone(i) == RunAlone(StartOfCall, "none", fin[i], env.playwright)

Launched(i) == fout.req[i].spc \in BrowserSteps \cup {"close"}

(* C25: two scrape requests whose steps interleave in any way are            *)
(* independent: the browser of a request is open only between its own        *)
(* launch and its own return, and a request that has returned has the        *)
(* result, and has left its browser in the state, that it would have had     *)
(* running alone.                                                            *)
C25_RequestsIndependent ==
    entry = "pair" =>
        \A i \in Calls :
            /\ fout.browsers[i] = "open" => Launched(i)
            /\ fout.req[i].spc = "returned" =>
                  /\ fout.req[i].out = Alone(i).r.out
                  /\ fout.browsers[i] = Alone(i).b
                  /\ fout.browsers[i] # "open"

\* one request has returned its snapshot and closed its browser while the
\* other is in the middle of its scroll cycles with its own browser open
C25_Witness ==
    /\ entry = "pair"
    /\ fout.req[1].spc = "returned" /\ "allImages" \in DOMAIN fout.req[1].out
    /\ fout.browsers[1] = "closed"
    /\ fout.req[2].spc = "scroll" /\ fout.req[2].cycles = 3
    /\ fout.browsers[2] = "open"

(***************************************************************************)
(* Termination of the waits and the scroll (specification SpecLive)        *)
(***************************************************************************)
(* C26: for every page, the wait for dynamic content, the wait for the       *)
(* images and the scroll loop all come to an end, and the page is then       *)
(* scrolled back to the top.                                                 *)
C26_ScrapeEnds == <>(fout.pc = "done" /\ fout.scrollY = 0)

(***************************************************************************)
(* Properties of navigation and headings (specification SpecNav)           *)
(***************************************************************************)
\* the links of the page that some navigation selector matches
MatchedLinks ==
    UNION { { page.navMatches[k][i] : i \in 1..Len(page.navMatches[k]) } :
            k \in 1..Len(page.navMatches) }

\* the document position of the link an item of the navigation came from
NavElement(item) == (CHOOSE l \in MatchedLinks : l.text = item.v["text"].v).el

HeadingPlace(item) ==
    CHOOSE i \in 1..Len(page.headingEls) : page.headingEls[i].text = item.v["text"].v

(* C27: the navigation of the snapshot has at most 10 items and the headings *)
(* at most 8, every item has a non-empty text, the items are in document     *)
(* order, and no link element is in the navigation more than once, also      *)
(* when several navigation selectors match it.                               *)
C27_NavigationAndHeadings ==
    fout.ran =>
        LET nav   == fout.visual_data.navigation.v
            heads == fout.visual_data.headings.v
        IN  /\ Len(nav) <= 10 /\ Len(heads) <= 8
            /\ \A i \in 1..Len(nav) : nav[i].v["text"].v # <<>>
            /\ \A i \in 1..Len(heads) : heads[i].v["text"].v # <<>>
            /\ \A i, j \in 1..Len(nav) : i < j => NavElement(nav[i]) < NavElement(nav[j])
            /\ \A i, j \in 1..Len(heads) :
                  i < j => HeadingPlace(heads[i]) < HeadingPlace(heads[j])

FixedKeys ==
    {"url", "siteType", "backgroundColor", "textColor", "fontFamily", "title", "isDark",
     "hasSearch", "hasVideo", "screenshot", "allImages", "totalImagesFound",
     "navigation", "headings", "logo"}

(* C28: the output of safe_data_cleanup has exactly the fixed set of keys,   *)
(* so neither 'error' nor 'mcp_data' survives, and safe_data_cleanup given   *)
(* its own output returns that output again.                                 *)
C28_CleanupIdempotent ==
    entry = "cleanup" =>
        /\ fout.stage \in {"cleaned", "prompted", "again"} =>
              DOMAIN fout.safe_data = FixedKeys
        /\ fout.stage # "raised again"
        /\ fout.stage = "again" => fout.again = fout.safe_data

(***************************************************************************)
(* The MCP backup: module globals (main.py:76-105), startup (main.py:866-  *)
(* 871), initialize_mcp (main.py:107-122) and the use of agent_primary by  *)
(* scrape_with_mcp (main.py:460-471) in the requests served afterwards.    *)
(* fin is the process environment, fout the globals and the state of the   *)
(* two context managers of initialize_mcp.                                 *)
(***************************************************************************)
MaxRequests == 2

\* what load_mcp_tools and stdio_client can do
ToolLoads == {"tools", "empty", "raise"}

McpEnvs ==
    [MCP_AVAILABLE : BOOLEAN, server_params : BOOLEAN, model_primary : BOOLEAN,
     spawn : BOOLEAN, load : ToolLoads]

InitMcp ==
    /\ IdlePipeline("mcp")
    /\ page = <<>>
    /\ fin \in McpEnvs
    /\ fout = [pc |-> "startup", stdio |-> "none", session |-> "none",
               mcp_tools |-> FALSE, agent_primary |-> FALSE,
               returned |-> None, served |-> 0, uses |-> <<>>]

\* main.py:866-871 and 109-110: startup calls initialize_mcp when MCP is
\* available; initialize_mcp returns False at once without its settings
Startup ==
    /\ entry = "mcp" /\ fout.pc = "startup"
    /\ fout' = IF ~fin.MCP_AVAILABLE
               THEN [fout EXCEPT !.pc = "ready"]
               ELSE IF ~fin.server_params \/ ~fin.model_primary
               THEN [fout EXCEPT !.pc = "ready", !.returned = Bool(FALSE)]
               ELSE [fout EXCEPT !.pc = "stdio_client"]
    /\ UNCHANGED <<pipelineVars, page, fin>>

\* main.py:113, 120-122: entering stdio_client; a server that does not start
\* raises into the except clause
EnterStdioClient ==
    /\ entry = "mcp" /\ fout.pc = "stdio_client"
    /\ fout' = IF fin.spawn
               THEN [fout EXCEPT !.pc = "ClientSession", !.stdio = "open"]
               ELSE [fout EXCEPT !.pc = "ready", !.returned = Bool(FALSE)]
    /\ UNCHANGED <<pipelineVars, page, fin>>

\* main.py:114: entering ClientSession
EnterClientSession ==
    /\ entry = "mcp" /\ fout.pc = "ClientSession"
    /\ fout' = [fout EXCEPT !.pc = "load_mcp_tools", !.session = "open"]
    /\ UNCHANGED <<pipelineVars, page, fin>>

\* main.py:115-118: the tools are loaded from the session and, when there
\* are any, the agent is built on them; the return statement is next
LoadMcpTools ==
    /\ entry = "mcp" /\ fout.pc = "load_mcp_tools"
    /\ fout' = CASE fin.load = "tools" ->
                      [fout EXCEPT !.pc = "leave", !.mcp_tools = TRUE,
                                   !.agent_primary = TRUE, !.returned = Bool(TRUE)]
                 [] fin.load = "empty" ->
                      [fout EXCEPT !.pc = "leave", !.returned = Bool(FALSE)]
                 [] fin.load = "raise" ->
                      [fout EXCEPT !.pc = "leave", !.returned = Bool(FALSE)]
    /\ UNCHANGED <<pipelineVars, page, fin>>

\* main.py:113-119: a return, a fall through or an exception leaves both
\* async with blocks, whose exits close the session and the server process
LeaveBlocks ==
    /\ entry = "mcp" /\ fout.pc = "leave"
    /\ fout' = [fout EXCEPT !.pc = "ready", !.session = "closed",
                            !.stdio = "closed"]
    /\ UNCHANGED <<pipelineVars, page, fin>>

\* main.py:678 and 460-471: a request served after startup whose scrape
\* failed or not; scrape_with_mcp invokes agent_primary when it is set, and
\* uses records the state of the session at each invocation
ServeRequest ==
    /\ entry = "mcp" /\ fout.pc = "ready" /\ fout.served < MaxRequests
    /\ \E failed \in BOOLEAN :
         LET d == IF failed THEN [error |-> Str(<<"Super Playwright failed: ">>)]
                  ELSE [url |-> Str(<<"u">>)]
         IN  fout' = IF NeedsBackup(d, fout.agent_primary)
                     THEN [fout EXCEPT !.served = @ + 1,
                                       !.uses = Append(@, fout.session)]
                     ELSE [fout EXCEPT !.served = @ + 1]
    /\ UNCHANGED <<pipelineVars, page, fin>>

NextMcp ==
    \/ Startup
    \/ EnterStdioClient
    \/ EnterClientSession
    \/ LoadMcpTools
    \/ LeaveBlocks
    \/ ServeRequest

SpecMcp == InitMcp /\ [][NextMcp]_vars

(* C29: whenever scrape_with_mcp invokes agent_primary, the MCP client
   session its tools were loaded from is open: the agent is never used
   after its session was closed. *)
C29_SessionOpenWhenUsed ==
    entry = "mcp" =>
        \A i \in DOMAIN fout.uses : fout.uses[i] = "open"

(***************************************************************************)
(* Properties of extract_images: the count and the failure response        *)
(* (specification SpecImages)                                              *)
(***************************************************************************)
\* the scrape handed back a dict with an "error" key
ScrapeReportsError == "error" \in DOMAIN scrapeOut.val

\* the scrape succeeded and comparing some candidate with the minima raises
FilteringRaises ==
    /\ ~ScrapeReportsError
    /\ \E i \in 1..Len(Candidates) : FilterRaises(Candidates[i], request)

(* C30: every /extract-images response has total_images equal to the length
   of its images list; when the scrape reports an error or an exception is
   raised, while filtering included, the handler still answers, and the
   response has success false, no image, total_images 0, no screenshot and
   the failure text as error_message. *)
C30_CountAndFailureShape ==
    /\ (entry = "extract_images" /\ pc = "done") => response.sent
    /\ ImagesAnswered =>
          /\ response.total_images = Len(response.images)
          /\ (ScrapeReportsError \/ FilteringRaises) =>
                /\ ~response.success
                /\ response.images = <<>>
                /\ response.total_images = 0
                /\ response.screenshot_base64 = None
                /\ response.error_message.t = "str"
                /\ response.error_message.v # <<>>
          /\ ScrapeReportsError =>
                response.error_message = Str(PyStr(scrapeOut.val["error"]))

\* a scrape that captured a screenshot and six candidates, answered with the
\* failure response because min_width is null
C30_Witness ==
    /\ ImagesAnswered /\ FilteringRaises
    /\ request.min_width = None
    /\ Len(Candidates) = 6
    /\ Get(scrapeOut.val, "screenshot", None) # None
    /\ ~response.success

=============================================================================
